---- MODULE Spec2Model ----
(***************************************************************************)
(* PoET enclave: identity (key pair + monotonic counter), wait timers and  *)
(* wait certificates, as implemented by the SGX enclave                    *)
(* (libpoet_enclave/poet_enclave.cpp) behind the bridge                    *)
(* (libpoet_bridge/poet.cpp).                                              *)
(*                                                                         *)
(* Times read from the trusted clock are whole seconds (sgx_time_t).       *)
(* Durations are doubles; they are represented as a whole number of ticks, *)
(* TicksPerSecond ticks to the second, so that floor() and ceil() of       *)
(* SgxRequestTime + Duration are computed and not assumed.                 *)
(***************************************************************************)
EXTENDS Integers, Sequences, FiniteSets, TLC

(***************************************************************************)
(* Bounds of the model.                                                    *)
(***************************************************************************)
NumIdentities == 2
MaxTimers == 2
MaxCertificates == 2
MaxEarly == 2
MaxLate == 3
MaxRequestTime == 0
MaxNegLogU == 1
TicksPerSecond == 2
NumNonces == 1
RequestLag == 2
MaxReloadNesting == 1
MaxLostCounted == 2
NumThreads == 2
MaxLocalMean == 3
Resolution == 4
ComponentSize == 2
CommitmentLength == 4
MaxFailedSequenceId == 1
MaxBridgeCounter == 2
NumSenders == 2
MaxCorrelationId == 3
MaxProcessRequests == 2
MaxPings == 1

(***************************************************************************)
(* Program constants.                                                      *)
(***************************************************************************)
NULL_IDENTIFIER == "0000000000000000"
TIMER_TIMEOUT_PERIOD == 30
MINIMUM_WAIT_TIME == 1
CERTIFICATE_ID_LENGTH == 16
MAX_ADDRESS_LENGTH == 66
MIN_ADDRESS_LENGTH == 26
\* Enclave::CallSgx: default retries and delay, and those LoadEnclave passes
\* for sgx_create_enclave
DefaultRetries == 5
DefaultRetryDelayMs == 100
CreateEnclaveRetries == 10
CreateEnclaveRetryWaitMs == 250

POET_SUCCESS == "POET_SUCCESS"
POET_ERR_VALUE == "POET_ERR_VALUE"
POET_ERR_SYSTEM == "POET_ERR_SYSTEM"
POET_ERR_SYSTEM_BUSY == "POET_ERR_SYSTEM_BUSY"
POET_ERR_UNKNOWN == "POET_ERR_UNKNOWN"
POET_ERR_RUNTIME == "POET_ERR_RUNTIME"

SGX_SUCCESS == "SGX_SUCCESS"
SGX_ERROR_UNEXPECTED == "SGX_ERROR_UNEXPECTED"
SGX_ERROR_ENCLAVE_LOST == "SGX_ERROR_ENCLAVE_LOST"
SGX_ERROR_INVALID_ENCLAVE_ID == "SGX_ERROR_INVALID_ENCLAVE_ID"
SGX_ERROR_DEVICE_BUSY == "SGX_ERROR_DEVICE_BUSY"
SGX_ERROR_BUSY == "SGX_ERROR_BUSY"

(***************************************************************************)
(* Input domains.                                                          *)
(***************************************************************************)
Identities == 1..NumIdentities
OtherCertId == "ABCDEFGHJKLMNPQR"
LongCertId == "ABCDEFGHJKLMNPQRS"
ShortCertId == "ABCDEFGHJKLMNPQ"
GoodAddress == "1a2b3c4d5e6f7a8b9c0d1a2b3c4d5e6f7a8b9c0d"
ShortAddress == "1a2b3c4d5e6f7a8b9c0d1a2b3"
LongAddress ==
    "1a2b3c4d5e6f7a8b9c0d1a2b3c4d5e6f7a8b9c0d1a2b3c4d5e6f7a8b9c0d1a2b3c4"
BlockHashes == {"blockhash"}
Nonces == 1..NumNonces
Threads == 1..NumThreads
\* the threads that send requests through a message stream
Senders == 1..NumSenders
\* the correlation ids of the SDK; 0 is never generated
CorrelationIds == 0..MaxCorrelationId
\* a thread that is not inside SendMessage
NotSending == [step |-> 0, correlation_id |-> 0]
\* the readings the trusted clock is observed at: around the creation and
\* expiry of a timer, and around its time-out TIMER_TIMEOUT_PERIOD later
Times == (0..MaxEarly) \cup {TIMER_TIMEOUT_PERIOD + k : k \in 1..MaxLate}
\* how far the caller's wall clock may be behind the trusted clock
RequestSkews == {0 - RequestLag, 0}

\* strlen() of the strings the model passes around
strlen(s) ==
    CASE s = NULL_IDENTIFIER -> 16
      [] s = OtherCertId -> 16
      [] s = LongCertId -> 17
      [] s = ShortCertId -> 15
      [] s = GoodAddress -> 40
      [] s = ShortAddress -> 25
      [] s = LongAddress -> 67

VARIABLES
    sealed,     \* identities whose sealed signup data has been handed out
    mcExists,   \* per identity: the monotonic counter exists (not destroyed)
    mcValue,    \* per identity: value of the monotonic counter
    now,        \* reading of the trusted time source, seconds
    timers,     \* wait timers returned to callers: [ser, sig]
    certs,      \* log of the wait certificates issued
    last,       \* the most recent call and its outcome
    g_IsInitialized, \* bridge: Poet_Initialize has loaded the enclave
    enclaveId,  \* bridge: an enclave is loaded (enclaveId is not zero)
    stack,      \* bridge: the activations of the call in progress
    returned,   \* bridge: what the last bridge call returned
    sgxEnclave, \* SGX: an enclave was created, and the number of times the
                \* one created last has been destroyed
    inflight,   \* per thread: the ecall_CreateWaitCertificate it is inside
    calc,       \* the most recent evaluation of a helper function
    sim,        \* the simulated enclave: what it created, and its last call
    signups,    \* the signup information handed out
    correlation_counter, \* SDK: MessageStream::correlation_counter
    message_futures, \* SDK: the correlation ids that have a pending future
    future_message,  \* SDK: per correlation id, the SetMessage calls made
    sender,     \* SDK: per sending thread, its place in SendMessage
    send_queue, \* SDK: messages on inproc://send_queue
    server_socket, \* SDK: messages the validator sent, not yet received
    validator,  \* what the validator was sent and what it has sent
    request_queue, \* SDK: messages on inproc://request_queue
    processed,  \* SDK: the processing requests handled, in order
    dispatched  \* SDK: the replies ReceiveMessage looked up, found or not

protocolVars == <<sealed, mcExists, mcValue, now, timers, certs, last>>
bridgeVars == <<g_IsInitialized, enclaveId, stack, returned, sgxEnclave>>
sdkVars == <<correlation_counter, message_futures, future_message, sender,
             send_queue, server_socket, validator, request_queue, processed,
             dispatched>>
helperVars == <<calc, sim, signups, sdkVars>>
vars == <<sealed, mcExists, mcValue, now, timers, certs, last,
          g_IsInitialized, enclaveId, stack, returned, sgxEnclave, inflight,
          calc, sim,
          signups, sdkVars>>

(***************************************************************************)
(* Results.                                                                *)
(***************************************************************************)
Ok == [code |-> POET_SUCCESS, msg |-> ""]
ValueError(m) == [code |-> POET_ERR_VALUE, msg |-> m]
SystemError_AsValueError(m) == [code |-> POET_ERR_VALUE, msg |-> m]

SystemError(m) == [code |-> POET_ERR_SYSTEM, msg |-> m]

\* ThrowPoetError of the Python binding: the exception a result code is
\* raised as
ThrowPoetError(code) ==
    CASE code = POET_ERR_UNKNOWN -> "UnknownError"
      [] code = POET_ERR_VALUE -> "ValueError"
      [] code = POET_ERR_SYSTEM -> "SystemError"
      [] code = POET_ERR_SYSTEM_BUSY -> "SystemBusyError"
      [] code = POET_ERR_RUNTIME -> "RuntimeError"
      [] OTHER -> "none"

NoSig == [signer |-> 0, over |-> <<>>]

(***************************************************************************)
(* Arithmetic on ticks.                                                    *)
(***************************************************************************)
Ticks(seconds) == seconds * TicksPerSecond
floor(ticks) == ticks \div TicksPerSecond
ceil(ticks) == (ticks + TicksPerSecond - 1) \div TicksPerSecond

(***************************************************************************)
(* JSON objects as the enclave builds and reads them: a sequence of        *)
(* <<key, value>> members in insertion order.                              *)
(***************************************************************************)
HasKey(obj, k) == \E n \in 1..Len(obj) : obj[n][1] = k
Member(obj, k) == obj[CHOOSE n \in 1..Len(obj) : obj[n][1] = k][2]
\* json_object_dotget_number: 0 when the member is missing
json_object_dotget_number(obj, k) == IF HasKey(obj, k) THEN Member(obj, k) ELSE 0

\* the serialization with SequenceId set before RequestTime
SerializeWaitTimer_Unordered(duration, localMean, prevId, requestTime, sequenceId, sgxRequestTime, address) ==
    << <<"Duration", duration>>,
       <<"LocalMean", localMean>>,
       <<"PreviousCertID", prevId>>,
       <<"SequenceId", sequenceId>>,
       <<"RequestTime", requestTime>>,
       <<"SgxRequestTime", sgxRequestTime>>,
       <<"ValidatorAddress", address>> >>

SerializeWaitTimer(duration, localMean, prevId, requestTime, sequenceId, sgxRequestTime, address) ==
    << <<"Duration", duration>>,
       <<"LocalMean", localMean>>,
       <<"PreviousCertID", prevId>>,
       <<"RequestTime", requestTime>>,
       <<"SequenceId", sequenceId>>,
       <<"SgxRequestTime", sgxRequestTime>>,
       <<"ValidatorAddress", address>> >>

ParseWaitTimer(ser) ==
    [Duration |-> json_object_dotget_number(ser, "Duration"),
     LocalMean |-> json_object_dotget_number(ser, "LocalMean"),
     PreviousCertificateId |-> Member(ser, "PreviousCertID"),
     RequestTime |-> json_object_dotget_number(ser, "RequestTime"),
     SequenceId |-> json_object_dotget_number(ser, "SequenceId"),
     SgxRequestTime |-> json_object_dotget_number(ser, "SgxRequestTime"),
     ValidatorAddress |-> Member(ser, "ValidatorAddress")]

SerializeWaitCertificate(blockHash, wt, nonce) ==
    << <<"BlockHash", blockHash>>,
       <<"Duration", wt.Duration>>,
       <<"LocalMean", wt.LocalMean>>,
       <<"Nonce", nonce>>,
       <<"PreviousCertID", wt.PreviousCertificateId>>,
       <<"RequestTime", wt.RequestTime>>,
       <<"ValidatorAddress", wt.ValidatorAddress>> >>

(***************************************************************************)
(* ECDSA: identity i holds private key i, its public key is i.             *)
(***************************************************************************)
sgx_ecdsa_sign_Truncated(data, privateKey) ==
    [signer |-> privateKey, over |-> SubSeq(data, 1, Len(data) - 1)]

sgx_ecdsa_sign(data, privateKey) == [signer |-> privateKey, over |-> data]
sgx_ecdsa_verify_KeyOnly(data, publicKey, signature) ==
    signature.signer = publicKey

sgx_ecdsa_verify(data, publicKey, signature) ==
    signature.signer = publicKey /\ signature.over = data

(***************************************************************************)
(* Signatures and public keys as text.  A signature has the components x   *)
(* and y, a public key gx and gy, each ComponentSize bytes, least          *)
(* significant byte first.  Text is a sequence of characters.              *)
(***************************************************************************)
ByteValues == {0, 1, 255}
Components == [1..ComponentSize -> ByteValues]
HighComponents == [1..ComponentSize -> ByteValues \ {0}]

Reverse(s) == [n \in 1..Len(s) |-> s[Len(s) + 1 - n]]

Base64Alphabet ==
    << "A", "B", "C", "D", "E", "F", "G", "H",
       "I", "J", "K", "L", "M", "N", "O", "P",
       "Q", "R", "S", "T", "U", "V", "W", "X",
       "Y", "Z", "a", "b", "c", "d", "e", "f",
       "g", "h", "i", "j", "k", "l", "m", "n",
       "o", "p", "q", "r", "s", "t", "u", "v",
       "w", "x", "y", "z", "0", "1", "2", "3",
       "4", "5", "6", "7", "8", "9", "+", "/" >>

Base64Char(n) == Base64Alphabet[n + 1]
Base64Index(c) == (CHOOSE n \in 1..Len(Base64Alphabet) : Base64Alphabet[n] = c) - 1

\* base64_encode: three bytes become four characters, and a last group of
\* one or two bytes is padded with "="
RECURSIVE base64_encode(_)
base64_encode(bytes) ==
    IF Len(bytes) = 0 THEN <<>>
    ELSE IF Len(bytes) = 1
       THEN << Base64Char(bytes[1] \div 4), Base64Char((bytes[1] % 4) * 16),
               "=", "=" >>
    ELSE IF Len(bytes) = 2
       THEN << Base64Char(bytes[1] \div 4),
               Base64Char((bytes[1] % 4) * 16 + bytes[2] \div 16),
               Base64Char((bytes[2] % 16) * 4), "=" >>
    ELSE << Base64Char(bytes[1] \div 4),
            Base64Char((bytes[1] % 4) * 16 + bytes[2] \div 16),
            Base64Char((bytes[2] % 16) * 4 + bytes[3] \div 64),
            Base64Char(bytes[3] % 64) >>
         \o base64_encode(SubSeq(bytes, 4, Len(bytes)))

\* the characters of text before its first "="
BeforePadding(text) ==
    SubSeq(text, 1, Len(text) - Cardinality({n \in 1..Len(text) : text[n] = "="}))

\* base64_decode: four characters become three bytes, and a last group of
\* two or three characters one or two bytes
RECURSIVE DecodeGroups(_)
DecodeGroups(v) ==
    IF Len(v) <= 1 THEN <<>>
    ELSE IF Len(v) = 2 THEN << v[1] * 4 + v[2] \div 16 >>
    ELSE IF Len(v) = 3
       THEN << v[1] * 4 + v[2] \div 16, (v[2] % 16) * 16 + v[3] \div 4 >>
    ELSE << v[1] * 4 + v[2] \div 16, (v[2] % 16) * 16 + v[3] \div 4,
            (v[3] % 4) * 64 + v[4] >>
         \o DecodeGroups(SubSeq(v, 5, Len(v)))

base64_decode(text) ==
    DecodeGroups([n \in 1..Len(BeforePadding(text)) |-> Base64Index(text[n])])

Poet_EncodeSignature(sig) == base64_encode(Reverse(sig.x) \o Reverse(sig.y))

Poet_DecodeSignature_NoReverse(text) ==
    LET bigEndianBuffer == base64_decode(text)
    IN [x |-> SubSeq(bigEndianBuffer, 1, ComponentSize),
        y |-> SubSeq(bigEndianBuffer, ComponentSize + 1, 2 * ComponentSize)]

Poet_DecodeSignature(text) ==
    LET bigEndianBuffer == base64_decode(text)
    IN [x |-> Reverse(SubSeq(bigEndianBuffer, 1, ComponentSize)),
        y |-> Reverse(SubSeq(bigEndianBuffer, ComponentSize + 1,
                             2 * ComponentSize))]

hexDigits ==
    << "0", "1", "2", "3", "4", "5", "6", "7",
       "8", "9", "A", "B", "C", "D", "E", "F" >>

toupper(c) ==
    CASE c = "a" -> "A" [] c = "b" -> "B" [] c = "c" -> "C"
      [] c = "d" -> "D" [] c = "e" -> "E" [] c = "f" -> "F"
      [] OTHER -> c

IsHexDigit(c) == \E n \in 1..Len(hexDigits) : hexDigits[n] = toupper(c)
HexToNibble(c) ==
    (CHOOSE n \in 1..Len(hexDigits) : hexDigits[n] = toupper(c)) - 1
HexToByte(c1, c2) == HexToNibble(c1) * 16 + HexToNibble(c2)

HexStringToBinary(hex) ==
    [n \in 1..(Len(hex) \div 2) |-> HexToByte(hex[2 * n - 1], hex[2 * n])]

BinaryToHexString(bytes) ==
    [n \in 1..(2 * Len(bytes)) |->
        IF n % 2 = 1 THEN hexDigits[(bytes[(n + 1) \div 2] \div 16) + 1]
        ELSE hexDigits[(bytes[n \div 2] % 16) + 1]]

EncodePublicKey(key) == BinaryToHexString(Reverse(key.gx) \o Reverse(key.gy))

DecodePublicKey(hex) ==
    LET bigEndianBuffer == HexStringToBinary(hex)
    IN [gx |-> Reverse(SubSeq(bigEndianBuffer, 1, ComponentSize)),
        gy |-> Reverse(SubSeq(bigEndianBuffer, ComponentSize + 1,
                              2 * ComponentSize))]

(***************************************************************************)
(* Certificate identifiers: the first 16 characters of the Base32 text of  *)
(* the SHA256 digest of the signature.                                     *)
(***************************************************************************)
DIGESTSIZE == 32

\* CryptoPP::SHA256().CalculateDigest: DIGESTSIZE bytes that depend on
\* the message
CalculateDigest(message) ==
    LET text == BeforePadding(message)
        weight == Len(text) + Base64Index(text[1])
                    + 7 * Base64Index(text[Len(text)])
    IN [n \in 1..DIGESTSIZE |-> (weight * n) % 256]

Base32Alphabet ==
    << "a", "b", "c", "d", "e", "f", "g", "h",
       "i", "j", "k", "m", "n", "p", "q", "r",
       "s", "t", "u", "v", "w", "x", "y", "z",
       "2", "3", "4", "5", "6", "7", "8", "9" >>

\* CryptoPP::Base32Encoder: five bits to the character, most significant
\* bit first, the last character filled with zero bits
Base32Encoder(bytes) ==
    [k \in 1..((8 * Len(bytes) + 4) \div 5) |->
        LET offset == 5 * (k - 1)
            first == bytes[(offset \div 8) + 1]
            second == IF (offset \div 8) + 2 <= Len(bytes)
                         THEN bytes[(offset \div 8) + 2] ELSE 0
            window == first * 256 + second
        IN Base32Alphabet[((window \div (2 ^ (11 - (offset % 8)))) % 32) + 1]]

\* CreateIdentifier without the substr
CreateIdentifier_Whole(signature) == Base32Encoder(CalculateDigest(signature))

CreateIdentifier(signature) ==
    SubSeq(Base32Encoder(CalculateDigest(signature)), 1, 16)

\* NULL_IDENTIFIER, character by character
NullIdentifierText == [n \in 1..strlen(NULL_IDENTIFIER) |-> "0"]

\* WaitCertificate::identifier
identifier(signature) ==
    IF signature = <<>> THEN NullIdentifierText
    ELSE CreateIdentifier(signature)

(***************************************************************************)
(* Signup information.  The originator's commitment is the text of the     *)
(* SHA256 hash of its public key: CommitmentLength hexadecimal characters. *)
(***************************************************************************)
GoodCommitment == [n \in 1..CommitmentLength |-> IF n = 1 THEN "a" ELSE "0"]
UpperCommitment == [n \in 1..CommitmentLength |-> toupper(GoodCommitment[n])]
OtherCommitment == [n \in 1..CommitmentLength |-> IF n = 1 THEN "b" ELSE "0"]
MalformedCommitment == [n \in 1..CommitmentLength |-> IF n = 1 THEN "z" ELSE "0"]
OversizedCommitment == GoodCommitment \o <<"0">>
Commitments ==
    {GoodCommitment, UpperCommitment, OtherCommitment, MalformedCommitment,
     OversizedCommitment}

\* the public key of the key pair the enclave creates for identity i
poetPublicKey(i) ==
    [gx |-> [n \in 1..ComponentSize |-> IF n = 1 THEN i ELSE 0],
     gy |-> [n \in 1..ComponentSize |-> IF n = 1 THEN 255 ELSE i]]

sgx_sha256_msg(message) == [sha256 |-> message]

\* CreateSignupReportData: SHA256(OPK_HASH|PPK), both in upper case
CreateSignupReportData(pOriginatorPublicKeyHash, pPoetPublicKey) ==
    LET hashString ==
            [n \in 1..Len(pOriginatorPublicKeyHash) |->
                toupper(pOriginatorPublicKeyHash[n])]
        hexString == EncodePublicKey(pPoetPublicKey)
    IN sgx_sha256_msg(hashString
                      \o [n \in 1..Len(hexString) |-> toupper(hexString[n])])

\* the hash of the PSE manifest of this platform, and another
PseManifestHashes == {"this manifest", "another manifest"}

sgx_quote_t(report_data, mr_enclave, basename) ==
    [report_data |-> report_data, mr_enclave |-> mr_enclave,
     basename |-> basename]

\* what Poet_CreateSignupData hands out for identity i
SignupData(i, commitment) ==
    [id |-> i,
     poetPublicKey |-> EncodePublicKey(poetPublicKey(i)),
     pseManifestHash |-> "this manifest",
     enclaveQuote |->
         sgx_quote_t(CreateSignupReportData(commitment, poetPublicKey(i)),
                     "this enclave", "this basename")]

\* the comparison of the quote's report data with the report data the
\* enclave computed, left out
ReportDataMatches_Always(inEnclaveQuote, testReportData) == TRUE

ReportDataMatches(inEnclaveQuote, testReportData) ==
    inEnclaveQuote.report_data = testReportData

\* Enclave::VerifySignupInfo and ecall_VerifySignupInfo, in the order of
\* their checks
VerifySignupInfoResult(commitment, inPoetPublicKey, inEnclaveQuote, inPseManifestHash) ==
    IF inPseManifestHash # "this manifest"
       THEN ValueError("PSE manifest hash does not match expected value")
    ELSE IF ~ReportDataMatches(inEnclaveQuote,
                               CreateSignupReportData(commitment, inPoetPublicKey))
       THEN ValueError("Report data is invalid")
    ELSE IF inEnclaveQuote.mr_enclave # "this enclave"
       THEN ValueError("MRENCLAVE in quote does not match expected value")
    ELSE IF inEnclaveQuote.basename # "this basename"
       THEN ValueError("Basename in quote does not match expected value")
    ELSE Ok

(***************************************************************************)
(* Monotonic counter service.                                              *)
(***************************************************************************)
sgx_increment_monotonic_counter_ByTwo(v) == v + 2

sgx_increment_monotonic_counter_Wrap(v) == IF v >= 2 THEN 0 ELSE v + 1

sgx_increment_monotonic_counter(v) == v + 1

NextSequenceId_Stale(v) == v

\* ecall_CreateWaitTimer: the sequence id of the new timer is the value the
\* increment returns
NextSequenceId(v) == sgx_increment_monotonic_counter(v)

ConsumeTimer_NoIncrement(v) == v

ConsumeTimer_Twice(v) == v + 2

\* ecall_CreateWaitCertificate: the increment after signing that consumes
\* the timer
ConsumeTimer(v) == sgx_increment_monotonic_counter(v)

(***************************************************************************)
(* Wait timer duration: MINIMUM_WAIT_TIME - localMean * log(hashAsDouble), *)
(* hashAsDouble in [0, 1]; negLogU stands for -log(hashAsDouble), in ticks.*)
(***************************************************************************)
GenerateWaitTimerDuration_PlusLog(localMean, negLogU) ==
    Ticks(MINIMUM_WAIT_TIME) - localMean * negLogU

GenerateWaitTimerDuration(localMean, negLogU) ==
    Ticks(MINIMUM_WAIT_TIME) + localMean * negLogU

\* a double: a finite number of ticks, an infinity, or not a number
Finite(t) == [kind |-> "finite", ticks |-> t]
PlusInfinity == [kind |-> "+inf", ticks |-> 0]
MinusInfinity == [kind |-> "-inf", ticks |-> 0]
NaN == [kind |-> "nan", ticks |-> 0]

RECURSIVE Log2Floor(_)
Log2Floor(n) == IF n <= 1 THEN 0 ELSE 1 + Log2Floor(n \div 2)

\* log() of the fraction num/den, num > 0, in ticks and rounded towards
\* zero: the whole binary logarithm times ln 2 = 0.69
log(num, den) ==
    IF num >= den THEN (Log2Floor(num \div den) * Ticks(69)) \div 100
    ELSE 0 - ((Log2Floor(den \div num) * Ticks(69)) \div 100)

\* GenerateWaitTimerDuration from the CMAC tag on: hashAsDouble is
\* tag / ULLONG_MAX, here tag / Resolution, and log(0) is minus infinity
WaitTimerDuration(tag, localMean) ==
    IF tag # 0
       THEN Finite(GenerateWaitTimerDuration(localMean, 0 - log(tag, Resolution)))
    ELSE IF localMean > 0 THEN PlusInfinity
    ELSE IF localMean < 0 THEN MinusInfinity
    ELSE NaN

\* the simulator: std::exponential_distribution(1.0 / mean) draws
\* -log(1 - u) * mean for a uniform u in [0, 1), here u = k / Resolution
exponential_distribution(mean, k) == 0 - mean * log(Resolution - k, Resolution)

ComputeDuration(mean, k) ==
    Finite(Ticks(MINIMUM_WAIT_TIME) + exponential_distribution(mean, k))

(***************************************************************************)
(* The checks of ecall_CreateWaitCertificate.                              *)
(***************************************************************************)
PublicKey(i) == i
PrivateKey(i) == i

InSequence_AtLeast(sequenceId, wt) == sequenceId >= wt.SequenceId

InSequence_Off(sequenceId, wt) == TRUE

\* the counter read back equals the sequence id in the timer
InSequence(sequenceId, wt) == sequenceId = wt.SequenceId

\* ceil(static_cast<double>(GetCurrentTime(&timeNonce)))
CurrentTime(trustedTime) == ceil(Ticks(trustedTime))

ExpireTime_Ceil(wt) == ceil(Ticks(wt.SgxRequestTime) + wt.Duration)

ExpireTime_CallerTime(wt) == floor(Ticks(wt.RequestTime) + wt.Duration)

ExpireTime(wt) == floor(Ticks(wt.SgxRequestTime) + wt.Duration)

TimeOutTime_NoGrace(wt) == ceil(Ticks(wt.SgxRequestTime) + wt.Duration)

TimeOutTime(wt) ==
    ceil(Ticks(wt.SgxRequestTime) + wt.Duration + Ticks(TIMER_TIMEOUT_PERIOD))

IsGenesis_Never(wt) == FALSE

IsGenesis(wt) == NULL_IDENTIFIER = wt.PreviousCertificateId

NotExpired_Off(wt, currentTime) == FALSE

NotExpired(wt, currentTime) ==
    (ExpireTime(wt) > currentTime) /\ ~IsGenesis(wt)

TimedOut(wt, currentTime) ==
    (TimeOutTime(wt) < currentTime) /\ ~IsGenesis(wt)

MsgParsePrev == "Parse WaitTimer failed to retrieve PreviousCertID"
MsgParseAddr == "Parse WaitTimer failed to retrieve ValidatorAddress"
MsgSignature == "Wait timer signature is invalid"
MsgReadCounter == "Failed to read monotonic counter."
MsgSequence == "WaitTimer out of sequence.  (Attempted replay attack?)"
MsgNotExpired == "Wait timer has not expired"
MsgTimedOut == "Wait timer has timed out"
MsgIncrement == "Failed to increment monotonic counter."
MsgUnsealCounter == "Failed to unseal counter"
MsgDestroy == "Failed to destroy monotonic counter."
MsgAddress == "Invalid Validator Address"
MsgLocalMean == "Invalid local mean time"
MsgPrevId == "Invalid Previous CertificateId"
MsgCertSignature == "Wait certificate signature is invalid"
MsgSignTimer == "Failed to sign wait timer"

\* ecall_CreateWaitCertificate up to the sequence check: the timer is
\* parsed, its signature verified, the counter read and compared
SequencingResult(i, ser, sig) ==
    IF ~HasKey(ser, "PreviousCertID") THEN ValueError(MsgParsePrev)
    ELSE IF ~HasKey(ser, "ValidatorAddress") THEN ValueError(MsgParseAddr)
    ELSE LET wt == ParseWaitTimer(ser) IN
         IF ~sgx_ecdsa_verify(ser, PublicKey(i), sig)
            THEN ValueError(MsgSignature)
         ELSE IF ~mcExists[i] THEN SystemError(MsgReadCounter)
         ELSE IF ~InSequence(mcValue[i], wt) THEN ValueError(MsgSequence)
         ELSE Ok

\* ecall_CreateWaitCertificate from there: the trusted time is read and the
\* timer must have expired and not timed out
TimingResult(ser, trustedTime) ==
    LET wt == ParseWaitTimer(ser) IN
    IF NotExpired(wt, CurrentTime(trustedTime)) THEN ValueError(MsgNotExpired)
    ELSE IF TimedOut(wt, CurrentTime(trustedTime)) THEN ValueError(MsgTimedOut)
    ELSE Ok

CertificateResult_TimingFirst(i, ser, sig, trustedTime) ==
    IF SequencingResult(i, ser, sig) \in
         {ValueError(MsgParsePrev), ValueError(MsgParseAddr),
          ValueError(MsgSignature)}
    THEN SequencingResult(i, ser, sig)
    ELSE IF TimingResult(ser, trustedTime) # Ok
         THEN TimingResult(ser, trustedTime)
         ELSE SequencingResult(i, ser, sig)

\* the result of ecall_CreateWaitCertificate for identity i, in the order
\* the enclave applies its checks
CertificateResult(i, ser, sig, trustedTime) ==
    IF SequencingResult(i, ser, sig) # Ok THEN SequencingResult(i, ser, sig)
    ELSE TimingResult(ser, trustedTime)

(***************************************************************************)
(* What a caller can do to a serialized timer it holds before handing it   *)
(* back: rewrite a member, or drop one.                                    *)
(***************************************************************************)
SetMember(obj, k, v) ==
    [n \in 1..Len(obj) |-> IF obj[n][1] = k THEN <<k, v>> ELSE obj[n]]
DropMember(obj, k) == SelectSeq(obj, LAMBDA m : m[1] # k)

Tampered(ser, i) ==
    { SetMember(ser, "SequenceId", IF mcExists[i] THEN mcValue[i] ELSE 0),
      SetMember(ser, "Duration", 0),
      DropMember(ser, "PreviousCertID") } \ {ser}

\* a call that entered the enclave, and its outcome
Call(op, i, ser, sig, result, outSer, outSig) ==
    [op |-> op, id |-> i, ser |-> ser, sig |-> sig, at |-> now,
     mcBefore |-> IF i \in sealed /\ mcExists[i] THEN mcValue[i] ELSE 0 - 1,
     result |-> result, outSer |-> outSer, outSig |-> outSig,
     args |-> <<>>, ecall |-> TRUE]

\* a call the bridge refused on its arguments, before any call into SGX
Refused(op, i, args, result) ==
    [Call(op, i, <<>>, NoSig, result, <<>>, NoSig)
        EXCEPT !.args = args, !.ecall = FALSE]

(***************************************************************************)
(* The bridge (libpoet_bridge/enclave.cpp).  A call in progress is a stack *)
(* of activations: a caller that makes its SGX calls one after the other   *)
(* (a public operation, or LoadEnclave), and on top of it the CallSgx      *)
(* activation of the call it is at.                                        *)
(***************************************************************************)
\* the SGX calls a caller makes through CallSgx, in order
Stages(fn) ==
    CASE fn = "Poet_CreateWaitTimer" -> <<"ecall_CreateWaitTimer">>
      [] fn = "Poet_CreateSignupData" ->
            <<"sgx_init_quote", "ecall_CreateSignupData", "sgx_get_quote">>
      [] fn = "Poet_GetEnclaveCharacteristics" ->
            <<"sgx_init_quote", "ecall_CreateErsatzEnclaveReport",
              "sgx_get_quote", "ecall_GetPseManifestHash">>
      [] fn \in {"Poet_Initialize", "LoadEnclave"} ->
            <<"sgx_create_enclave", "ecall_Initialize",
              "ecall_CalculateSealedSignupDataSize">>

BridgeOperations ==
    {"Poet_CreateWaitTimer", "Poet_GetEnclaveCharacteristics",
     "Poet_CreateSignupData"}

IsEcall(fxn) ==
    fxn \in {"ecall_CreateWaitTimer", "ecall_CreateSignupData",
             "ecall_CreateErsatzEnclaveReport",
             "ecall_GetPseManifestHash", "ecall_Initialize",
             "ecall_CalculateSealedSignupDataSize"}

RetriesOf(fxn) ==
    IF fxn = "sgx_create_enclave" THEN CreateEnclaveRetries ELSE DefaultRetries
RetryDelayMsOf(fxn) ==
    IF fxn = "sgx_create_enclave" THEN CreateEnclaveRetryWaitMs
    ELSE DefaultRetryDelayMs

\* what one invocation of fxn can report: the SGX status, and for an ecall
\* that was entered the result of the enclave function
Outcome(ret, poetRet) == [ret |-> ret, poetRet |-> poetRet]
Outcomes(fxn, loaded) ==
    IF fxn = "sgx_create_enclave"
       THEN {Outcome(SGX_SUCCESS, POET_SUCCESS),
             Outcome(SGX_ERROR_DEVICE_BUSY, POET_SUCCESS),
             Outcome(SGX_ERROR_UNEXPECTED, POET_SUCCESS)}
    ELSE IF ~IsEcall(fxn)
       THEN {Outcome(SGX_SUCCESS, POET_SUCCESS),
             Outcome(SGX_ERROR_BUSY, POET_SUCCESS),
             Outcome(SGX_ERROR_UNEXPECTED, POET_SUCCESS)}
    ELSE IF ~loaded
       THEN {Outcome(SGX_ERROR_INVALID_ENCLAVE_ID, POET_SUCCESS)}
    ELSE {Outcome(SGX_SUCCESS, POET_SUCCESS),
          Outcome(SGX_SUCCESS, POET_ERR_SYSTEM_BUSY),
          Outcome(SGX_SUCCESS, POET_ERR_SYSTEM),
          Outcome(SGX_ERROR_ENCLAVE_LOST, POET_SUCCESS),
          Outcome(SGX_ERROR_UNEXPECTED, POET_SUCCESS)}

ConvertPoetErrorStatus(ret, poetRet) ==
    IF ret = SGX_SUCCESS /\ poetRet = POET_ERR_SYSTEM_BUSY
    THEN SGX_ERROR_DEVICE_BUSY ELSE ret

\* ThrowSgxError: the code of the exception thrown for an SGX status
ThrowSgxError(ret) ==
    IF ret = SGX_SUCCESS THEN POET_SUCCESS
    ELSE IF ret = SGX_ERROR_BUSY THEN POET_ERR_SYSTEM_BUSY
    ELSE POET_ERR_SYSTEM

\* the statuses sgx_ecdsa_sign hands back to ecall_CreateWaitTimer, which
\* has incremented the counter by then
SignStatuses == {SGX_SUCCESS, SGX_ERROR_UNEXPECTED}

\* after CallSgx returns: ThrowSgxError(ret), then for an ecall
\* ThrowPoetError(poetRet)
StageError(fxn, ret, poetRet) ==
    IF ThrowSgxError(ret) # POET_SUCCESS THEN ThrowSgxError(ret)
    ELSE IF IsEcall(fxn) THEN poetRet
    ELSE POET_SUCCESS

Retry_OneMore(count, retries) == count <= retries + 1

\* retry = count <= retries
Retry(count, retries) == count <= retries

Activation(fn, stage, fxn, retries, delay) ==
    [fn |-> fn, stage |-> stage, fxn |-> fxn, retries |-> retries,
     delay |-> delay, count |-> 0, calls |-> 0, lost |-> 0, slept |-> 0,
     advanced |-> 0]
Caller(fn, stage) == Activation(fn, stage, "-", 0, 0)
CallSgx(fxn) ==
    Activation("CallSgx", 0, fxn, RetriesOf(fxn), RetryDelayMsOf(fxn))

\* the caller fn makes the CallSgx call of its stage
EnterStage(stk, fn, stage) ==
    stk \o <<Caller(fn, stage), CallSgx(Stages(fn)[stage])>>

\* what a bridge call returned: its code, and the CallSgx activation that
\* was the last to run
Returned(op, code, f, ret) ==
    [op |-> op, code |-> code, fxn |-> f.fxn, retries |-> f.retries,
     delay |-> f.delay, count |-> f.count, calls |-> f.calls,
     lost |-> f.lost, slept |-> f.slept, advanced |-> f.advanced,
     ret |-> ret, args |-> "-"]
NoCallSgx == Activation("-", 0, "-", 0, 0)
Pending(op) == Returned(op, "pending", NoCallSgx, SGX_SUCCESS)

\* QuerySgxStatus: the device is enabled, or a RuntimeError is thrown
QuerySgxStatus == {POET_SUCCESS, POET_ERR_RUNTIME}

Idle == [stage |-> "idle"]

\* an evaluation of the helper function fn
Calc(fn, args, out) == [fn |-> fn, args |-> args, out |-> out]

\* a call of the simulated enclave at time at: the timer it was about and
\* what was returned
SimCall(op, ser, sig, result, at) ==
    [op |-> op, ser |-> ser, sig |-> sig, result |-> result, at |-> at]

(***************************************************************************)
(* Initial state: nothing signed up.                                       *)
(***************************************************************************)
Init ==
    /\ sealed = {}
    /\ mcExists = [i \in Identities |-> FALSE]
    /\ mcValue = [i \in Identities |-> 0]
    /\ now = 0
    /\ timers = {}
    /\ certs = <<>>
    /\ last = [op |-> "none", id |-> 0, ser |-> <<>>, sig |-> NoSig, at |-> 0,
               mcBefore |-> 0 - 1, result |-> Ok, outSer |-> <<>>,
               outSig |-> NoSig, args |-> <<>>, ecall |-> FALSE]
    /\ g_IsInitialized = FALSE
    /\ enclaveId = FALSE
    /\ stack = <<>>
    /\ returned = Returned("none", POET_SUCCESS, NoCallSgx, SGX_SUCCESS)
    /\ sgxEnclave = [created |-> FALSE, destroyed |-> 0]
    /\ inflight = [th \in Threads |-> Idle]
    /\ calc = Calc("none", <<>>, <<>>)
    /\ sim = [created |-> <<>>, last |-> SimCall("none", <<>>, NoSig, "none", 0)]
    /\ signups = {}
    /\ correlation_counter = 0
    /\ message_futures = {}
    /\ future_message = [id \in CorrelationIds |-> 0]
    /\ sender = [th \in Senders |-> NotSending]
    /\ send_queue = <<>>
    /\ server_socket = <<>>
    /\ validator = [requests |-> {}, received |-> <<>>, sent |-> 0,
                    pings |-> 0]
    /\ request_queue = <<>>
    /\ processed = <<>>
    /\ dispatched = {}

(***************************************************************************)
(* ecall_CreateSignupData: fresh key pair, fresh counter at zero, sealed.  *)
(***************************************************************************)
Poet_CreateSignupData(i, inOriginatorPublicKeyHash) ==
    /\ UNCHANGED <<bridgeVars, inflight, calc, sim, sdkVars>>
    /\ i \notin sealed
    /\ sealed' = sealed \cup {i}
    /\ mcExists' = [mcExists EXCEPT ![i] = TRUE]
    /\ mcValue' = [mcValue EXCEPT ![i] = 0]
    /\ signups' = signups \cup {SignupData(i, inOriginatorPublicKeyHash)}
    /\ last' = [Call("CreateSignupData", i, <<>>, NoSig, Ok, <<>>, NoSig)
                  EXCEPT !.args = <<inOriginatorPublicKeyHash>>]
    /\ UNCHANGED <<now, timers, certs>>

(***************************************************************************)
(* Poet_VerifySignupInfo: the key is decoded from its text, the enclave    *)
(* computes the report data it expects, the bridge compares the quote.     *)
(***************************************************************************)
Poet_VerifySignupInfo(inOriginatorPublicKeyHash, inPoetPublicKey, inEnclaveQuote, inPseManifestHash) ==
    /\ UNCHANGED <<bridgeVars, inflight, helperVars>>
    /\ last' = [Call("VerifySignupInfo", 0, <<>>, NoSig,
                      VerifySignupInfoResult(inOriginatorPublicKeyHash,
                                             DecodePublicKey(inPoetPublicKey),
                                             inEnclaveQuote, inPseManifestHash),
                      <<>>, NoSig)
                  EXCEPT !.args = <<inOriginatorPublicKeyHash, inPoetPublicKey,
                                    inEnclaveQuote, inPseManifestHash>>]
    /\ UNCHANGED <<sealed, mcExists, mcValue, now, timers, certs>>

(***************************************************************************)
(* ecall_UnsealSignupData: reads the counter to see that it still exists.  *)
(***************************************************************************)
Poet_UnsealSignupData(i) ==
    /\ UNCHANGED <<bridgeVars, inflight, helperVars>>
    /\ i \in sealed
    /\ last' = Call("UnsealSignupData", i, <<>>, NoSig,
                    IF mcExists[i] THEN Ok ELSE SystemError(MsgUnsealCounter),
                    <<>>, NoSig)
    /\ UNCHANGED <<sealed, mcExists, mcValue, now, timers, certs>>

(***************************************************************************)
(* ecall_ReleaseSignupData: destroys the counter.                          *)
(***************************************************************************)
Poet_ReleaseSignupData_KeepsCounter(i) ==
    /\ UNCHANGED <<bridgeVars, inflight, helperVars>>
    /\ i \in sealed
    /\ last' = Call("ReleaseSignupData", i, <<>>, NoSig,
                    IF mcExists[i] THEN Ok ELSE SystemError(MsgDestroy),
                    <<>>, NoSig)
    /\ UNCHANGED <<sealed, mcExists, mcValue, now, timers, certs>>

Poet_ReleaseSignupData(i) ==
    /\ UNCHANGED <<bridgeVars, inflight, helperVars>>
    /\ i \in sealed
    /\ mcExists' = [mcExists EXCEPT ![i] = FALSE]
    /\ last' = Call("ReleaseSignupData", i, <<>>, NoSig,
                    IF mcExists[i] THEN Ok ELSE SystemError(MsgDestroy),
                    <<>>, NoSig)
    /\ UNCHANGED <<sealed, mcValue, now, timers, certs>>

(***************************************************************************)
(* Poet_CreateWaitTimer: the bridge validates the arguments, then          *)
(* ecall_CreateWaitTimer reads the trusted time, derives the duration,     *)
(* increments the counter, serializes and signs.                           *)
(***************************************************************************)
TimerArgumentError_NoLocalMean(address, prevId, localMean) ==
    IF strlen(address) > MAX_ADDRESS_LENGTH \/ strlen(address) < MIN_ADDRESS_LENGTH
       THEN ValueError(MsgAddress)
    ELSE IF strlen(prevId) # CERTIFICATE_ID_LENGTH THEN ValueError(MsgPrevId)
    ELSE Ok

TimerArgumentError(address, prevId, localMean) ==
    IF strlen(address) > MAX_ADDRESS_LENGTH \/ strlen(address) < MIN_ADDRESS_LENGTH
       THEN ValueError(MsgAddress)
    ELSE IF localMean <= 0 THEN ValueError(MsgLocalMean)
    ELSE IF strlen(prevId) # CERTIFICATE_ID_LENGTH THEN ValueError(MsgPrevId)
    ELSE Ok

Poet_CreateWaitTimer_IncrementFirst(i, address, prevId, skew, localMean, negLogU, ret) ==
    /\ UNCHANGED <<bridgeVars, inflight, helperVars>>
    /\ i \in sealed /\ mcExists[i]
    /\ TimerArgumentError(address, prevId, localMean) # Ok
    /\ mcValue[i] <= MaxFailedSequenceId
    /\ mcValue' = [mcValue EXCEPT ![i] = NextSequenceId(@)]
    /\ last' = Refused("CreateWaitTimer", i, <<address, prevId, localMean>>,
                       TimerArgumentError(address, prevId, localMean))
    /\ UNCHANGED <<sealed, mcExists, now, timers, certs>>

Poet_CreateWaitTimer(i, address, prevId, skew, localMean, negLogU, ret) ==
    /\ UNCHANGED <<bridgeVars, inflight, helperVars>>
    /\ i \in sealed
    /\ LET argError == TimerArgumentError(address, prevId, localMean)
           args == <<address, prevId, localMean>>
       IN
       IF argError # Ok
       THEN /\ last' = Refused("CreateWaitTimer", i, args, argError)
            /\ UNCHANGED <<sealed, mcExists, mcValue, now, timers, certs>>
       ELSE IF ~mcExists[i]
       THEN /\ last' = [Call("CreateWaitTimer", i, <<>>, NoSig,
                             SystemError(MsgIncrement), <<>>, NoSig)
                           EXCEPT !.args = args]
            /\ UNCHANGED <<sealed, mcExists, mcValue, now, timers, certs>>
       ELSE LET sgx_request_time == now
                duration == GenerateWaitTimerDuration(localMean, negLogU)
                sequenceId == NextSequenceId(mcValue[i])
                ser == SerializeWaitTimer(duration, localMean, prevId,
                                          now + skew, sequenceId,
                                          sgx_request_time, address)
                sig == sgx_ecdsa_sign(ser, PrivateKey(i))
            IN /\ mcValue' = [mcValue EXCEPT ![i] = sequenceId]
               /\ UNCHANGED <<sealed, mcExists, now, certs>>
               /\ IF ThrowSgxError(ret) # POET_SUCCESS
                  THEN /\ sequenceId <= MaxFailedSequenceId
                       /\ last' = [Call("CreateWaitTimer", i, <<>>, NoSig,
                                        SystemError(MsgSignTimer), <<>>, NoSig)
                                      EXCEPT !.args = args]
                       /\ UNCHANGED timers
                  ELSE /\ timers' = timers \cup {[ser |-> ser, sig |-> sig]}
                       /\ last' = [Call("CreateWaitTimer", i, <<>>, NoSig, Ok,
                                        ser, sig)
                                      EXCEPT !.args = args]

\* the increment moved ahead of the expiry and time-out checks
Poet_CreateWaitCertificate_IncrementFirst(i, ser, sig, blockHash, nonce) ==
    /\ UNCHANGED <<bridgeVars, inflight, helperVars>>
    /\ i \in sealed
    /\ LET result == CertificateResult(i, ser, sig, now) IN
       /\ last' = Call("CreateWaitCertificate", i, ser, sig, result,
                       <<>>, NoSig)
       /\ mcValue' = IF SequencingResult(i, ser, sig) = Ok
                     THEN [mcValue EXCEPT ![i] = ConsumeTimer(@)]
                     ELSE mcValue
       /\ UNCHANGED <<sealed, mcExists, now, timers, certs>>

(***************************************************************************)
(* Poet_CreateWaitCertificate / ecall_CreateWaitCertificate.  The caller   *)
(* hands in a timer it was given, as it was or altered, with the timer's   *)
(* signature.                                                              *)
(***************************************************************************)
Poet_CreateWaitCertificate(i, ser, sig, blockHash, nonce) ==
    /\ UNCHANGED <<bridgeVars, inflight, helperVars>>
    /\ i \in sealed
    /\ LET result == CertificateResult(i, ser, sig, now) IN
       IF result # Ok
       THEN /\ last' = Call("CreateWaitCertificate", i, ser, sig, result,
                            <<>>, NoSig)
            /\ UNCHANGED <<sealed, mcExists, mcValue, now, timers, certs>>
       ELSE LET wt == ParseWaitTimer(ser)
                cser == SerializeWaitCertificate(blockHash, wt, nonce)
                csig == sgx_ecdsa_sign(cser, PrivateKey(i))
            IN /\ mcValue' = [mcValue EXCEPT
                                ![i] = ConsumeTimer(@)]
               /\ certs' = Append(certs, [ser |-> cser, sig |-> csig,
                                          timer |-> [ser |-> ser, sig |-> sig],
                                          id |-> i, at |-> now])
               /\ last' = Call("CreateWaitCertificate", i, ser, sig, Ok,
                               cser, csig)
               /\ UNCHANGED <<sealed, mcExists, now, timers>>

(***************************************************************************)
(* ecall_CreateWaitCertificate entered by several threads: one step for    *)
(* each of its accesses to what the threads share, the counter read, the   *)
(* trusted time read and the counter increment.                            *)
(***************************************************************************)
InFlight(stage, i, ser, sig, blockHash, nonce, sequenceId, currentTime) ==
    [stage |-> stage, id |-> i, ser |-> ser, sig |-> sig,
     blockHash |-> blockHash, nonce |-> nonce, sequenceId |-> sequenceId,
     currentTime |-> currentTime]

Certificate_ReadCounter(th, i, ser, sig, blockHash, nonce) ==
    /\ inflight[th] = Idle
    /\ i \in sealed
    /\ LET result == SequencingResult(i, ser, sig) IN
       IF result # Ok
       THEN /\ last' = Call("CreateWaitCertificate", i, ser, sig, result,
                            <<>>, NoSig)
            /\ UNCHANGED inflight
       ELSE /\ inflight' = [inflight EXCEPT ![th] =
                              InFlight("sequenced", i, ser, sig, blockHash,
                                       nonce, mcValue[i], 0)]
            /\ UNCHANGED last
    /\ UNCHANGED <<sealed, mcExists, mcValue, now, timers, certs, bridgeVars, helperVars>>

Certificate_ReadTime(th) ==
    /\ inflight[th].stage = "sequenced"
    /\ LET c == inflight[th]
           result == TimingResult(c.ser, now)
       IN IF result # Ok
          THEN /\ last' = Call("CreateWaitCertificate", c.id, c.ser, c.sig,
                               result, <<>>, NoSig)
               /\ inflight' = [inflight EXCEPT ![th] = Idle]
          ELSE /\ inflight' = [inflight EXCEPT ![th].stage = "timed",
                                               ![th].currentTime = now]
               /\ UNCHANGED last
    /\ UNCHANGED <<sealed, mcExists, mcValue, now, timers, certs, bridgeVars, helperVars>>

Certificate_Increment(th) ==
    /\ inflight[th].stage = "timed"
    /\ inflight' = [inflight EXCEPT ![th] = Idle]
    /\ LET c == inflight[th] IN
       IF ~mcExists[c.id]
       THEN /\ last' = Call("CreateWaitCertificate", c.id, c.ser, c.sig,
                            SystemError(MsgIncrement), <<>>, NoSig)
            /\ UNCHANGED <<mcValue, certs>>
       ELSE LET wt == ParseWaitTimer(c.ser)
                cser == SerializeWaitCertificate(c.blockHash, wt, c.nonce)
                csig == sgx_ecdsa_sign(cser, PrivateKey(c.id))
            IN /\ mcValue' = [mcValue EXCEPT ![c.id] = ConsumeTimer(@)]
               /\ certs' = Append(certs,
                                  [ser |-> cser, sig |-> csig,
                                   timer |-> [ser |-> c.ser, sig |-> c.sig],
                                   id |-> c.id, at |-> c.currentTime])
               /\ last' = Call("CreateWaitCertificate", c.id, c.ser, c.sig,
                               Ok, cser, csig)
    /\ UNCHANGED <<sealed, mcExists, now, timers, bridgeVars, helperVars>>

(***************************************************************************)
(* Poet_VerifyWaitCertificate / ecall_VerifyWaitCertificate: the signature *)
(* of the serialized certificate is verified under the public key handed   *)
(* in.                                                                     *)
(***************************************************************************)
VerifyResult_NeedsCounter(ser, sig, publicKey) ==
    IF ~mcExists[publicKey] THEN SystemError(MsgReadCounter)
    ELSE IF sgx_ecdsa_verify(ser, publicKey, sig) THEN Ok
    ELSE ValueError(MsgCertSignature)

VerifyResult(ser, sig, publicKey) ==
    IF sgx_ecdsa_verify(ser, publicKey, sig) THEN Ok
    ELSE ValueError(MsgCertSignature)

Poet_VerifyWaitCertificate(ser, sig, publicKey) ==
    /\ UNCHANGED <<bridgeVars, inflight, helperVars>>
    /\ last' = Call("VerifyWaitCertificate", publicKey, ser, sig,
                    VerifyResult(ser, sig, publicKey), <<>>, NoSig)
    /\ UNCHANGED <<sealed, mcExists, mcValue, now, timers, certs>>

\* a certificate as a verifier may receive it: as issued, or altered
Received(cser) == {cser, SetMember(cser, "Nonce", 0)}

(***************************************************************************)
(* The trusted clock moves forward.                                        *)
(***************************************************************************)
AdvanceTime(t) ==
    /\ UNCHANGED <<bridgeVars, inflight, helperVars>>
    /\ t > now
    /\ now' = t
    /\ UNCHANGED <<sealed, mcExists, mcValue, timers, certs, last>>

\* the model stops minting timers and certificates at its bounds
Budget ==
    /\ Cardinality(timers') <= MaxTimers
    /\ Len(certs') <= MaxCertificates
    /\ (timers' # timers => now <= MaxRequestTime)

TimerRequest(address, prevId, skew, localMean, negLogU) ==
    [address |-> address, prevId |-> prevId, skew |-> skew,
     localMean |-> localMean, negLogU |-> negLogU]

(***************************************************************************)
(* Spec: the protocol among NumIdentities identities; callers sign up,     *)
(* unseal, release, request timers with valid and invalid arguments, and   *)
(* hand timers back as they were or altered, to any identity.              *)
(***************************************************************************)
ProtocolRequests ==
    { TimerRequest(GoodAddress, NULL_IDENTIFIER, 0, 1, 0),
      TimerRequest(GoodAddress, OtherCertId, 0, 1, 0),
      TimerRequest(ShortAddress, OtherCertId, 0, 1, 0),
      TimerRequest(GoodAddress, OtherCertId, 0, 0, 0),
      TimerRequest(GoodAddress, LongCertId, 0, 1, 0),
      TimerRequest(LongAddress, OtherCertId, 0, 1, 0),
      TimerRequest(GoodAddress, ShortCertId, 0, 1, 0),
      TimerRequest(GoodAddress, OtherCertId, 0, 0 - 1, 0) }

ProtocolTimes == {0, MINIMUM_WAIT_TIME}

Next ==
    \/ \E i \in Identities : Poet_CreateSignupData(i, GoodCommitment)
    \/ \E i \in Identities : Poet_UnsealSignupData(i)
    \/ \E i \in Identities : Poet_ReleaseSignupData(i)
    \/ \E i \in Identities, r \in ProtocolRequests, ret \in SignStatuses :
          /\ ret # SGX_SUCCESS
               => i = 1 /\ r = TimerRequest(GoodAddress, OtherCertId, 0, 1, 0)
          /\ Poet_CreateWaitTimer(i, r.address, r.prevId, r.skew,
                                  r.localMean, r.negLogU, ret)
          /\ Budget
    \/ \E i \in Identities, t \in timers, blockHash \in BlockHashes,
          nonce \in Nonces :
          \E ser \in {t.ser} \cup Tampered(t.ser, i) :
             /\ Poet_CreateWaitCertificate(i, ser, t.sig, blockHash, nonce)
             /\ Budget
    \/ \E k \in 1..Len(certs), publicKey \in Identities :
          \E cser \in Received(certs[k].ser) :
             Poet_VerifyWaitCertificate(cser, certs[k].sig, publicKey)
    \/ \E t \in ProtocolTimes : AdvanceTime(t)

Spec == Init /\ [][Next]_vars

(***************************************************************************)
(* SpecTiming: one identity, timers of every duration, chain position and  *)
(* caller clock, handed back unaltered at every reading of the trusted     *)
(* clock.                                                                  *)
(***************************************************************************)
TimingRequests ==
    { TimerRequest(GoodAddress, prevId, skew, 1, negLogU) :
        prevId \in {NULL_IDENTIFIER, OtherCertId}, skew \in RequestSkews,
        negLogU \in 0..MaxNegLogU }

NextTiming ==
    \/ Poet_CreateSignupData(1, GoodCommitment)
    \/ \E r \in TimingRequests :
          /\ Poet_CreateWaitTimer(1, r.address, r.prevId, r.skew,
                                  r.localMean, r.negLogU, SGX_SUCCESS)
          /\ Budget
    \/ \E t \in timers, blockHash \in BlockHashes, nonce \in Nonces :
          /\ Poet_CreateWaitCertificate(1, t.ser, t.sig, blockHash, nonce)
          /\ Budget
    \/ \E t \in Times : AdvanceTime(t)

SpecTiming == Init /\ [][NextTiming]_vars

(***************************************************************************)
(* The bridge's calls into SGX.  One step is one turn of the loop of       *)
(* Enclave::CallSgx: fxn() is invoked, and its status is acted upon.       *)
(***************************************************************************)
Running == stack # <<>>
Top == stack[Len(stack)]
\* the stack without the topmost caller and its CallSgx
Below == SubSeq(stack, 1, Len(stack) - 2)
ReloadNesting == Cardinality({n \in 1..Len(stack) : stack[n].fn = "LoadEnclave"})
TopOutcomes == IF Running THEN Outcomes(Top.fxn, enclaveId) ELSE {}

\* an exception leaves every activation; the public operation catches it
\* and returns its code
Throw(code, f, ret) ==
    /\ stack' = <<>>
    /\ returned' = Returned(stack[1].fn, code, f, ret)
    /\ UNCHANGED g_IsInitialized

\* CallSgx returns ret to its caller, which throws, goes on to its next
\* stage, or is done
Return(f, ret, poetRet) ==
    LET c == stack[Len(stack) - 1]
        err == StageError(f.fxn, ret, poetRet)
    IN IF err # POET_SUCCESS THEN Throw(err, f, ret)
       ELSE IF c.stage < Len(Stages(c.fn))
          THEN /\ stack' = EnterStage(Below, c.fn, c.stage + 1)
               /\ UNCHANGED <<returned, g_IsInitialized>>
       ELSE IF Len(stack) = 2
          THEN /\ stack' = <<>>
               /\ returned' = Returned(c.fn, POET_SUCCESS, f, ret)
               /\ g_IsInitialized' =
                     (g_IsInitialized \/ c.fn = "Poet_Initialize")
       ELSE \* LoadEnclave is done: the CallSgx that reloaded loops
            /\ stack' = Below
            /\ UNCHANGED <<returned, g_IsInitialized>>

\* the arguments of Poet_Initialize: all given and a usable path, a NULL
\* among them, or a path that is empty or too long
InitializeArguments == {"valid", "NULL", "invalid path"}

\* sgx_destroy_enclave and sgx_create_enclave, as SGX sees them
sgx_destroy_enclave(e) == [e EXCEPT !.destroyed = @ + 1]
sgx_create_enclave == [created |-> TRUE, destroyed |-> 0]

\* Enclave::Unload: the enclave is destroyed if there is one
Unload(id, e) ==
    IF id THEN [enclaveId |-> FALSE, sgxEnclave |-> sgx_destroy_enclave(e)]
    ELSE [enclaveId |-> id, sgxEnclave |-> e]

\* Poet_Initialize when !g_IsInitialized: the arguments are checked, then
\* Enclave::Load unloads and loads the enclave
Initialize(status, args) ==
    IF args # "valid"
       THEN /\ returned' = [Returned("Poet_Initialize", POET_ERR_VALUE,
                                     NoCallSgx, SGX_SUCCESS)
                              EXCEPT !.args = args]
            /\ UNCHANGED <<g_IsInitialized, enclaveId, stack, sgxEnclave>>
       ELSE /\ enclaveId' = Unload(enclaveId, sgxEnclave).enclaveId
            /\ sgxEnclave' = Unload(enclaveId, sgxEnclave).sgxEnclave
            /\ IF status # POET_SUCCESS
               THEN /\ returned' = [Returned("Poet_Initialize", status,
                                             NoCallSgx, SGX_SUCCESS)
                                      EXCEPT !.args = args]
                    /\ UNCHANGED <<g_IsInitialized, stack>>
               ELSE /\ stack' = EnterStage(<<>>, "Poet_Initialize", 1)
                    /\ returned' = Pending("Poet_Initialize")
                    /\ UNCHANGED g_IsInitialized

\* Poet_Initialize without the test of g_IsInitialized
Poet_Initialize_Again(status, args) ==
    /\ ~Running
    /\ Initialize(status, args)
    /\ UNCHANGED <<protocolVars, inflight, helperVars>>

Poet_Initialize(status, args) ==
    /\ ~Running
    /\ IF g_IsInitialized
       THEN /\ returned' = [Returned("Poet_Initialize", POET_SUCCESS,
                                     NoCallSgx, SGX_SUCCESS)
                              EXCEPT !.args = args]
            /\ UNCHANGED <<g_IsInitialized, enclaveId, stack, sgxEnclave>>
       ELSE Initialize(status, args)
    /\ UNCHANGED <<protocolVars, inflight, helperVars>>

\* Poet_Terminate that destroys the enclave whatever the flag and the
\* enclave id say
Poet_Terminate_Unguarded ==
    /\ ~Running
    /\ enclaveId' = FALSE
    /\ sgxEnclave' = sgx_destroy_enclave(sgxEnclave)
    /\ g_IsInitialized' = FALSE
    /\ returned' = Returned("Poet_Terminate", POET_SUCCESS, NoCallSgx,
                            SGX_SUCCESS)
    /\ UNCHANGED <<stack, protocolVars, inflight, helperVars>>

\* Poet_Terminate: Enclave::Unload if g_IsInitialized
Poet_Terminate ==
    /\ ~Running
    /\ IF g_IsInitialized
       THEN /\ enclaveId' = Unload(enclaveId, sgxEnclave).enclaveId
            /\ sgxEnclave' = Unload(enclaveId, sgxEnclave).sgxEnclave
       ELSE UNCHANGED <<enclaveId, sgxEnclave>>
    /\ g_IsInitialized' = FALSE
    /\ returned' = Returned("Poet_Terminate", POET_SUCCESS, NoCallSgx,
                            SGX_SUCCESS)
    /\ UNCHANGED <<stack, protocolVars, inflight, helperVars>>

\* the counters sgx_create_monotonic_counter can still hand out, and the one
\* it hands out next
FreshCounters == {i \in Identities : ~mcExists[i] /\ i \notin sealed}
NewCounter == CHOOSE i \in FreshCounters : \A j \in FreshCounters : i <= j
\* the live counter created last that no sealed data handed out refers to
UnsealedCounters == {i \in Identities : mcExists[i] /\ i \notin sealed}
LatestCounter == CHOOSE i \in UnsealedCounters : \A j \in UnsealedCounters : i >= j

\* an invocation of fxn can have gone past its call that changes a counter:
\* sgx_increment_monotonic_counter in ecall_CreateWaitTimer, handed the
\* sealed data of identity 1, sgx_create_monotonic_counter in
\* ecall_CreateSignupData
CanAdvance(fxn) ==
    \/ fxn = "ecall_CreateWaitTimer" /\ mcValue[1] < MaxBridgeCounter
    \/ fxn = "ecall_CreateSignupData" /\ FreshCounters # {}

\* the counters after an invocation of fxn that did, or did not, go past
\* that call
CounterAfter(fxn, advanced) ==
    IF advanced /\ fxn = "ecall_CreateWaitTimer"
    THEN [mcValue EXCEPT ![1] = sgx_increment_monotonic_counter(@)]
    ELSE IF advanced /\ fxn = "ecall_CreateSignupData"
    THEN [mcValue EXCEPT ![NewCounter] = 0]
    ELSE mcValue

\* ecall_CreateSignupData destroys no counter, whether it fails later or not
LiveAfter(fxn, advanced) ==
    IF advanced /\ fxn = "ecall_CreateSignupData"
    THEN [mcExists EXCEPT ![NewCounter] = TRUE]
    ELSE mcExists

\* Poet_CreateSignupData hands out the sealed signup data when its last SGX
\* call, sgx_get_quote, has succeeded
SealedAfter(o) ==
    IF /\ Len(stack) = 2 /\ stack[1].fn = "Poet_CreateSignupData"
       /\ Top.fxn = "sgx_get_quote"
       /\ StageError(Top.fxn, o.ret, o.poetRet) = POET_SUCCESS
    THEN sealed \cup {LatestCounter}
    ELSE sealed

\* a public operation starts on its first SGX call; Poet_CreateWaitTimer is
\* handed the sealed signup data of identity 1
BeginCall(op) ==
    /\ ~Running
    /\ op = "Poet_CreateWaitTimer" => (1 \in sealed /\ mcExists[1])
    /\ stack' = EnterStage(<<>>, op, 1)
    /\ returned' = Pending(op)
    /\ UNCHANGED <<g_IsInitialized, enclaveId, sgxEnclave, protocolVars,
                   inflight, helperVars>>

\* SGX_ERROR_ENCLAVE_LOST == ret: Unload(), LoadEnclave(), and retry stays
\* true.  The activation stops counting its lost calls at MaxLostCounted.
CallSgx_EnclaveLost(status, advanced) ==
    /\ Running
    /\ Outcome(SGX_ERROR_ENCLAVE_LOST, POET_SUCCESS) \in TopOutcomes
    /\ ReloadNesting < MaxReloadNesting
    /\ advanced => CanAdvance(Top.fxn)
    /\ mcValue' = CounterAfter(Top.fxn, advanced)
    /\ mcExists' = LiveAfter(Top.fxn, advanced)
    /\ enclaveId' = Unload(enclaveId, sgxEnclave).enclaveId
    /\ sgxEnclave' = Unload(enclaveId, sgxEnclave).sgxEnclave
    /\ LET counted == Top.lost < MaxLostCounted
           f == [Top EXCEPT !.calls = IF counted THEN @ + 1 ELSE @,
                            !.lost = IF counted THEN @ + 1 ELSE @,
                            !.advanced = IF advanced THEN @ + 1 ELSE @]
       IN IF status # POET_SUCCESS
          THEN Throw(status, f, SGX_ERROR_ENCLAVE_LOST)
          ELSE /\ stack' = EnterStage([stack EXCEPT ![Len(stack)] = f],
                                      "LoadEnclave", 1)
               /\ UNCHANGED <<returned, g_IsInitialized>>
    /\ UNCHANGED <<sealed, now, timers, certs, last, inflight, helperVars>>

\* SGX_ERROR_DEVICE_BUSY == ret: Sleep(retryDelayMs), count++,
\* retry = count <= retries
CallSgx_DeviceBusy(o) ==
    /\ Running
    /\ ConvertPoetErrorStatus(o.ret, o.poetRet) = SGX_ERROR_DEVICE_BUSY
    /\ LET f == [Top EXCEPT !.calls = @ + 1, !.count = @ + 1,
                            !.slept = @ + Top.delay]
       IN IF Retry(f.count, f.retries)
          THEN /\ stack' = [stack EXCEPT ![Len(stack)] = f]
               /\ UNCHANGED <<returned, g_IsInitialized>>
          ELSE Return(f, SGX_ERROR_DEVICE_BUSY, o.poetRet)
    /\ UNCHANGED <<enclaveId, sgxEnclave, protocolVars, inflight, helperVars>>

\* any other status: retry = false, the status goes to the caller
CallSgx_Done(o, advanced) ==
    /\ Running
    /\ ConvertPoetErrorStatus(o.ret, o.poetRet)
          \notin {SGX_ERROR_DEVICE_BUSY, SGX_ERROR_ENCLAVE_LOST}
    /\ advanced => (CanAdvance(Top.fxn) /\ o.ret = SGX_SUCCESS)
    /\ (Top.fxn \in {"ecall_CreateWaitTimer", "ecall_CreateSignupData"}
          /\ o = Outcome(SGX_SUCCESS, POET_SUCCESS)) => advanced
    /\ mcValue' = CounterAfter(Top.fxn, advanced)
    /\ mcExists' = LiveAfter(Top.fxn, advanced)
    /\ sealed' = SealedAfter(o)
    /\ enclaveId' = (enclaveId \/ (Top.fxn = "sgx_create_enclave"
                                     /\ o.ret = SGX_SUCCESS))
    /\ sgxEnclave' = IF Top.fxn = "sgx_create_enclave" /\ o.ret = SGX_SUCCESS
                        THEN sgx_create_enclave ELSE sgxEnclave
    /\ Return([Top EXCEPT !.calls = @ + 1,
                          !.advanced = IF advanced THEN @ + 1 ELSE @],
              o.ret, o.poetRet)
    /\ UNCHANGED <<now, timers, certs, last, inflight, helperVars>>

CallSgxTurn ==
    \/ \E status \in QuerySgxStatus, advanced \in BOOLEAN :
          CallSgx_EnclaveLost(status, advanced)
    \/ \E o \in TopOutcomes : CallSgx_DeviceBusy(o)
    \/ \E o \in TopOutcomes, advanced \in BOOLEAN : CallSgx_Done(o, advanced)

NextBridge ==
    \/ \E status \in QuerySgxStatus, args \in InitializeArguments :
          Poet_Initialize(status, args)
    \/ Poet_Terminate
    \/ \E op \in BridgeOperations : BeginCall(op)
    \/ \E status \in QuerySgxStatus, advanced \in BOOLEAN :
          CallSgx_EnclaveLost(status, advanced)
    \/ \E o \in TopOutcomes : CallSgx_DeviceBusy(o)
    \/ \E o \in TopOutcomes, advanced \in BOOLEAN : CallSgx_Done(o, advanced)

(***************************************************************************)
(* SpecOverlap: the threads of one process hand the timers of identity 1   *)
(* to ecall_CreateWaitCertificate at the same time.                        *)
(***************************************************************************)
OverlapRequests ==
    { TimerRequest(GoodAddress, NULL_IDENTIFIER, 0, 1, 0),
      TimerRequest(GoodAddress, OtherCertId, 0, 1, 0) }

NextOverlap ==
    \/ Poet_CreateSignupData(1, GoodCommitment)
    \/ Poet_ReleaseSignupData(1)
    \/ \E r \in OverlapRequests :
          /\ Poet_CreateWaitTimer(1, r.address, r.prevId, r.skew,
                                  r.localMean, r.negLogU, SGX_SUCCESS)
          /\ Budget
    \/ \E th \in Threads, t \in timers, blockHash \in BlockHashes,
          nonce \in Nonces :
          Certificate_ReadCounter(th, 1, t.ser, t.sig, blockHash, nonce)
    \/ \E th \in Threads : Certificate_ReadTime(th)
    \/ \E th \in Threads : Certificate_Increment(th) /\ Budget
    \/ \E t \in ProtocolTimes : AdvanceTime(t)

SpecOverlap == Init /\ [][NextOverlap]_vars

(***************************************************************************)
(* SpecHelpers: the helper functions, each evaluated on every input of its *)
(* bounded domain.                                                         *)
(***************************************************************************)
LocalMeans == (0 - 1)..MaxLocalMean

Eval_GenerateWaitTimerDuration(tag, localMean) ==
    /\ calc' = Calc("GenerateWaitTimerDuration", <<tag, localMean>>,
                    WaitTimerDuration(tag, localMean))
    /\ UNCHANGED <<protocolVars, bridgeVars, inflight, sim, signups, sdkVars>>

Eval_ComputeDuration(mean, k) ==
    /\ calc' = Calc("ComputeDuration", <<mean, k>>, ComputeDuration(mean, k))
    /\ UNCHANGED <<protocolVars, bridgeVars, inflight, sim, signups, sdkVars>>

\* a signature is encoded as the bridge returns it and decoded as the
\* bridge takes it
Eval_Poet_DecodeSignature(sig) ==
    /\ calc' = Calc("Poet_DecodeSignature", sig,
                    [encoded |-> Poet_EncodeSignature(sig),
                     decoded |-> Poet_DecodeSignature(Poet_EncodeSignature(sig))])
    /\ UNCHANGED <<protocolVars, bridgeVars, inflight, sim, signups, sdkVars>>

Eval_DecodePublicKey(key) ==
    /\ calc' = Calc("DecodePublicKey", key,
                    [encoded |-> EncodePublicKey(key),
                     decoded |-> DecodePublicKey(EncodePublicKey(key))])
    /\ UNCHANGED <<protocolVars, bridgeVars, inflight, sim, signups, sdkVars>>

\* the identifier of a certificate with the text signature as its signature
Eval_identifier(signature) ==
    /\ calc' = Calc("identifier", signature, identifier(signature))
    /\ UNCHANGED <<protocolVars, bridgeVars, inflight, sim, signups, sdkVars>>

NextHelpers ==
    \/ \E x \in Components, y \in HighComponents :
          Eval_identifier(Poet_EncodeSignature([x |-> x, y |-> y]))
    \/ Eval_identifier(<<>>)
    \/ \E x \in Components, y \in HighComponents :
          Eval_Poet_DecodeSignature([x |-> x, y |-> y])
    \/ \E gx \in Components, gy \in HighComponents :
          Eval_DecodePublicKey([gx |-> gx, gy |-> gy])
    \/ \E tag \in 0..Resolution, localMean \in LocalMeans :
          Eval_GenerateWaitTimerDuration(tag, localMean)
    \/ \E mean \in 1..MaxLocalMean, k \in 0..(Resolution - 1) :
          Eval_ComputeDuration(mean, k)

SpecHelpers == Init /\ [][NextHelpers]_vars

(***************************************************************************)
(* The simulated enclave (poet_enclave_simulator).  Its clock is the wall  *)
(* clock; it keeps no counter.  sim.created lists the timers and           *)
(* certificates it has returned, in order.                                 *)
(***************************************************************************)
IDENTIFIER_LENGTH == 16

SignMessage(privkey, message) == [signer |-> privkey, over |-> message]
verify_signature(pubkey, message, signature) ==
    signature = [signer |-> pubkey, over |-> message]

\* WaitTimer::serialize: the keys in alphabetical order
WaitTimer_serialize(duration, local_mean, previous_certificate_id, request_time) ==
    << <<"Duration", duration>>, <<"LocalMean", local_mean>>,
       <<"PreviousCertID", previous_certificate_id>>,
       <<"RequestTime", request_time>> >>

\* WaitTimer::is_expired, at the wall clock time currentTime
is_expired(ser, currentTime) ==
    Ticks(Member(ser, "RequestTime")) + Member(ser, "Duration")
        < Ticks(currentTime)

Created(kind, ser, sig, at) ==
    [kind |-> kind, ser |-> ser, sig |-> sig, at |-> at]
NumCreated(kind) ==
    Cardinality({n \in 1..Len(sim.created) : sim.created[n].kind = kind})

\* create_wait_timer: the constructor throws ValueError, or the timer is
\* signed and returned
create_wait_timer(prev_cert_id, local_mean, k) ==
    /\ IF local_mean <= 0 \/ strlen(prev_cert_id) # IDENTIFIER_LENGTH
       THEN sim' = [sim EXCEPT !.last =
                        SimCall("create_wait_timer", <<>>, NoSig,
                                "ValueError", now)]
       ELSE LET ser == WaitTimer_serialize(
                           ComputeDuration(local_mean, k).ticks, local_mean,
                           prev_cert_id, now)
                sig == SignMessage("WaitTimerPrivateKey", ser)
            IN /\ NumCreated("WaitTimer") < MaxTimers
               /\ sim' = [created |-> Append(sim.created,
                                Created("WaitTimer", ser, sig, now)),
                          last |-> SimCall("create_wait_timer", ser, sig,
                                           "WaitTimer", now)]
    /\ UNCHANGED <<protocolVars, bridgeVars, inflight, calc, signups, sdkVars>>

\* create_wait_certificate: NULL unless the timer's signature verifies and
\* the timer has expired or follows the genesis block
create_wait_certificate(ser, sig) ==
    /\ IF ~verify_signature("WaitTimerPrivateKey", ser, sig)
       THEN sim' = [sim EXCEPT !.last =
                        SimCall("create_wait_certificate", ser, sig, "NULL",
                                now)]
       ELSE IF /\ Member(ser, "PreviousCertID") # NULL_IDENTIFIER
               /\ ~is_expired(ser, now)
       THEN sim' = [sim EXCEPT !.last =
                        SimCall("create_wait_certificate", ser, sig, "NULL",
                                now)]
       ELSE /\ NumCreated("WaitCertificate") < MaxCertificates
            /\ sim' = [created |-> Append(sim.created,
                             Created("WaitCertificate", ser,
                                     SignMessage("GlobalPrivateKey", ser),
                                     now)),
                       last |-> SimCall("create_wait_certificate", ser, sig,
                                        "WaitCertificate", now)]
    /\ UNCHANGED <<protocolVars, bridgeVars, inflight, calc, signups, sdkVars>>

\* the timers the simulated enclave returned, and one of them with its
\* previous certificate id replaced and its signature kept
SimTimers ==
    {[ser |-> sim.created[n].ser, sig |-> sim.created[n].sig] :
        n \in {m \in 1..Len(sim.created) : sim.created[m].kind = "WaitTimer"}}
SimRequests ==
    SimTimers
      \cup {[ser |-> SetMember(t.ser, "PreviousCertID", NULL_IDENTIFIER),
             sig |-> t.sig] : t \in SimTimers}

NextSim ==
    \/ \E prev \in {NULL_IDENTIFIER, OtherCertId, LongCertId},
          local_mean \in 0..1, k \in {0, Resolution - 1} :
          create_wait_timer(prev, local_mean, k)
    \/ \E t \in SimRequests : create_wait_certificate(t.ser, t.sig)
    \/ \E t \in Times : AdvanceTime(t)

SpecSim == Init /\ [][NextSim]_vars

(***************************************************************************)
(* Identity 1 signs up with any commitment; the evidence handed out is     *)
(* verified, whole or with one part replaced, with any commitment and the  *)
(* public key of any identity.                                             *)
(***************************************************************************)
Evidence ==
    UNION {{s.enclaveQuote,
            [s.enclaveQuote EXCEPT !.mr_enclave = "another enclave"],
            [s.enclaveQuote EXCEPT !.basename = "another basename"]}
           : s \in signups}

NextSignup ==
    \/ \E c \in Commitments : Poet_CreateSignupData(1, c)
    \/ \E c \in Commitments, i \in Identities, q \in Evidence,
          h \in PseManifestHashes :
          Poet_VerifySignupInfo(c, EncodePublicKey(poetPublicKey(i)), q, h)

SpecSignup == Init /\ [][NextSignup]_vars

\* the calls are synchronous: a call in progress keeps running
SpecBridge == Init /\ [][NextBridge]_vars /\ WF_vars(CallSgxTurn)

(***************************************************************************)
(* The C++ SDK: message streams, the dispatcher and the transaction        *)
(* processor.  A thread holding a stream sends a request and waits on the  *)
(* future; the dispatch thread moves messages between the in-process       *)
(* queues and the validator; the processor's Run loop answers processing   *)
(* requests.  Registration has been done.                                  *)
(***************************************************************************)
TP_PROCESS_REQUEST == "TP_PROCESS_REQUEST"
TP_PROCESS_RESPONSE == "TP_PROCESS_RESPONSE"
TP_STATE_GET_REQUEST == "TP_STATE_GET_REQUEST"
TP_STATE_GET_RESPONSE == "TP_STATE_GET_RESPONSE"
PING_REQUEST == "PING_REQUEST"
PING_RESPONSE == "PING_RESPONSE"

\* TpProcessResponse status values
OK == "OK"
INVALID_TRANSACTION == "INVALID_TRANSACTION"
INTERNAL_ERROR == "INTERNAL_ERROR"

\* the correlation id the validator gives its k-th request: its ids are
\* not the SDK's
ValidatorId(k) == MaxCorrelationId + k

Message(type, correlation_id, content) ==
    [message_type |-> type, correlation_id |-> correlation_id,
     content |-> content]

\* MessageStream::SendMessage, in the order of its statements: the id is
\* generated, the future is put into future_message_map under the mutex,
\* the message is sent
SendMessageSteps_SendFirst ==
    <<"GenerateCorrelationId", "Send", "future_message_map">>
SendMessageSteps == <<"GenerateCorrelationId", "future_message_map", "Send">>

AtStep(th, name) ==
    /\ sender[th].step \in 1..(Len(SendMessageSteps) - 1)
    /\ SendMessageSteps[sender[th].step + 1] = name

Advance(th) == [sender EXCEPT ![th].step = @ + 1]

\* MessageStream::GenerateCorrelationId: ++correlation_counter on the
\* atomic counter all streams share; SendMessage makes the future for it
MessageStream_GenerateCorrelationId(th) ==
    /\ sender[th].step = 0
    /\ correlation_counter < MaxCorrelationId
    /\ correlation_counter' = correlation_counter + 1
    /\ sender' = [sender EXCEPT
                    ![th] = [step |-> 1,
                             correlation_id |-> correlation_counter + 1]]
    /\ UNCHANGED <<message_futures, future_message, send_queue,
                   server_socket, validator, request_queue, processed,
                   dispatched>>
    /\ UNCHANGED <<protocolVars, bridgeVars, inflight, calc, sim, signups>>

\* SendMessage: future_message_map[correlation_id] = future, under the
\* mutex it shares with the dispatcher
MessageStream_Record(th) ==
    /\ AtStep(th, "future_message_map")
    /\ message_futures' = message_futures \cup {sender[th].correlation_id}
    /\ sender' = Advance(th)
    /\ UNCHANGED <<correlation_counter, future_message, send_queue,
                   server_socket, validator, request_queue, processed,
                   dispatched>>
    /\ UNCHANGED <<protocolVars, bridgeVars, inflight, calc, sim, signups>>

\* MessageStream::Send: the message goes onto inproc://send_queue
MessageStream_Send(th) ==
    /\ AtStep(th, "Send")
    /\ send_queue' = Append(send_queue,
                            Message(TP_STATE_GET_REQUEST,
                                    sender[th].correlation_id, "-"))
    /\ sender' = Advance(th)
    /\ UNCHANGED <<correlation_counter, message_futures, future_message,
                   server_socket, validator, request_queue, processed,
                   dispatched>>
    /\ UNCHANGED <<protocolVars, bridgeVars, inflight, calc, sim, signups>>

\* FutureMessage::GetMessage: blocks until SetMessage has given the future
\* its message
FutureMessage_GetMessage(th) ==
    /\ sender[th].step = Len(SendMessageSteps)
    /\ future_message[sender[th].correlation_id] > 0
    /\ sender' = [sender EXCEPT ![th] = NotSending]
    /\ UNCHANGED <<correlation_counter, message_futures, future_message,
                   send_queue, server_socket, validator, request_queue,
                   processed, dispatched>>
    /\ UNCHANGED <<protocolVars, bridgeVars, inflight, calc, sim, signups>>

\* what the validator holds after the message m has reached it
Deliver(v, m) ==
    IF m.message_type = TP_STATE_GET_REQUEST
    THEN [v EXCEPT !.requests = @ \cup {m.correlation_id}]
    ELSE [v EXCEPT !.received = Append(@, m)]

\* MessageDispatcher::SendMessage: a message of message_socket is passed
\* on to the validator
MessageDispatcher_SendMessage ==
    /\ send_queue # <<>>
    /\ validator' = Deliver(validator, Head(send_queue))
    /\ send_queue' = Tail(send_queue)
    /\ UNCHANGED <<correlation_counter, message_futures, future_message,
                   sender, server_socket, request_queue, processed,
                   dispatched>>
    /\ UNCHANGED <<protocolVars, bridgeVars, inflight, calc, sim, signups>>

\* MessageDispatcher::ReceiveMessage: a processing request goes to the
\* processor's queue, a ping is answered, any other message completes the
\* future recorded under its correlation id, if there is one, and removes
\* it from the map
MessageDispatcher_ReceiveMessage ==
    /\ server_socket # <<>>
    /\ server_socket' = Tail(server_socket)
    /\ LET m == Head(server_socket)
           id == m.correlation_id
       IN  CASE m.message_type = TP_PROCESS_REQUEST ->
                  /\ request_queue' = Append(request_queue, m)
                  /\ UNCHANGED <<validator, message_futures, future_message,
                                 dispatched>>
             [] m.message_type = PING_REQUEST ->
                  /\ validator' = Deliver(validator,
                                          Message(PING_RESPONSE, id, "-"))
                  /\ UNCHANGED <<request_queue, message_futures,
                                 future_message, dispatched>>
             [] OTHER ->
                  /\ IF id \in message_futures
                     THEN /\ future_message' =
                                [future_message EXCEPT ![id] = @ + 1]
                          /\ message_futures' = message_futures \ {id}
                     ELSE UNCHANGED <<message_futures, future_message>>
                  /\ dispatched' = dispatched \cup
                        {[correlation_id |-> id,
                          found |-> id \in message_futures]}
                  /\ UNCHANGED <<validator, request_queue>>
    /\ UNCHANGED <<correlation_counter, sender, send_queue, processed>>
    /\ UNCHANGED <<protocolVars, bridgeVars, inflight, calc, sim, signups>>

\* the validator answers a request it has received, once
Validator_Reply(id) ==
    /\ id \in validator.requests
    /\ validator' = [validator EXCEPT !.requests = @ \ {id}]
    /\ server_socket' = Append(server_socket,
                               Message(TP_STATE_GET_RESPONSE, id, "-"))
    /\ UNCHANGED <<correlation_counter, message_futures, future_message,
                   sender, send_queue, request_queue, processed, dispatched>>
    /\ UNCHANGED <<protocolVars, bridgeVars, inflight, calc, sim, signups>>

\* the validator sends a response nobody asked for: its correlation id is
\* one the SDK never generated
Unsolicited == Message(TP_STATE_GET_RESPONSE, 0, "-")
Validator_Unsolicited ==
    /\ \A k \in 1..Len(server_socket) : server_socket[k] # Unsolicited
    /\ \A d \in dispatched : d.correlation_id # 0
    /\ server_socket' = Append(server_socket, Unsolicited)
    /\ UNCHANGED <<correlation_counter, message_futures, future_message,
                   sender, send_queue, validator, request_queue, processed,
                   dispatched>>
    /\ UNCHANGED <<protocolVars, bridgeVars, inflight, calc, sim, signups>>

\* the transaction families: one has a handler registered, one has none
RegisteredFamily == "intkey"
handlers == {RegisteredFamily}
Families == {RegisteredFamily, "xo"}

\* the validator sends a transaction to process
Validator_ProcessRequest(family) ==
    /\ validator.sent < MaxProcessRequests
    /\ validator' = [validator EXCEPT !.sent = @ + 1]
    /\ server_socket' = Append(server_socket,
                               Message(TP_PROCESS_REQUEST,
                                       ValidatorId(validator.sent + 1),
                                       family))
    /\ UNCHANGED <<correlation_counter, message_futures, future_message,
                   sender, send_queue, request_queue, processed, dispatched>>
    /\ UNCHANGED <<protocolVars, bridgeVars, inflight, calc, sim, signups>>

\* the validator pings the processor
Validator_Ping ==
    /\ validator.pings < MaxPings
    /\ validator' = [validator EXCEPT !.pings = @ + 1]
    /\ server_socket' = Append(server_socket,
                               Message(PING_REQUEST,
                                       ValidatorId(MaxProcessRequests
                                                   + validator.pings + 1),
                                       "-"))
    /\ UNCHANGED <<correlation_counter, message_futures, future_message,
                   sender, send_queue, request_queue, processed, dispatched>>
    /\ UNCHANGED <<protocolVars, bridgeVars, inflight, calc, sim, signups>>

\* what the handler of a transaction does: GetApplicator returns and Apply
\* returns or throws, or GetApplicator throws
ApplyReturns == "Apply returns"
ApplyThrowsInvalid == "Apply throws InvalidTransaction"
NoHandler == "no handler"
HandlerBehaviours ==
    {ApplyReturns, ApplyThrowsInvalid, "Apply throws std::exception",
     "Apply throws another object", "GetApplicator throws std::exception",
     "GetApplicator throws another object"}
GetApplicatorThrows ==
    {"GetApplicator throws std::exception",
     "GetApplicator throws another object"}

\* the try block around applicator->Apply() and its two handlers
ApplyStatus(does) ==
    IF does = ApplyReturns THEN OK
    ELSE IF does = ApplyThrowsInvalid THEN INVALID_TRANSACTION
    ELSE INTERNAL_ERROR

\* the status HandleProcessingRequest gives the response: the handler of
\* the family is looked up; an exception that leaves GetApplicator is
\* caught by the outer handlers
ProcessStatus(family, does) ==
    IF family \in handlers
    THEN IF does \in GetApplicatorThrows THEN INTERNAL_ERROR
         ELSE ApplyStatus(does)
    ELSE INVALID_TRANSACTION

\* HandleProcessingRequest without the outer handlers: an exception that
\* leaves GetApplicator leaves the function, and nothing is sent
HandleProcessingRequest_Escapes(m, does) ==
    /\ send_queue' =
          IF m.content \in handlers /\ does \in GetApplicatorThrows
          THEN send_queue
          ELSE Append(send_queue,
                      Message(TP_PROCESS_RESPONSE, m.correlation_id,
                              ProcessStatus(m.content, does)))
    /\ processed' = Append(processed,
                           [correlation_id |-> m.correlation_id,
                            family |-> m.content,
                            does |-> IF m.content \in handlers THEN does
                                     ELSE NoHandler])

\* TransactionProcessorImpl::HandleProcessingRequest: after the try block
\* the response is sent with the correlation id of the request
HandleProcessingRequest(m, does) ==
    /\ send_queue' = Append(send_queue,
                            Message(TP_PROCESS_RESPONSE, m.correlation_id,
                                    ProcessStatus(m.content, does)))
    /\ processed' = Append(processed,
                           [correlation_id |-> m.correlation_id,
                            family |-> m.content,
                            does |-> IF m.content \in handlers THEN does
                                     ELSE NoHandler])

\* TransactionProcessorImpl::Run: the loop takes the next message of the
\* request queue and handles it
Run(does) ==
    /\ request_queue # <<>>
    /\ request_queue' = Tail(request_queue)
    /\ HandleProcessingRequest(Head(request_queue), does)
    /\ UNCHANGED <<correlation_counter, message_futures, future_message,
                   sender, server_socket, validator, dispatched>>
    /\ UNCHANGED <<protocolVars, bridgeVars, inflight, calc, sim, signups>>

\* threads send requests through their streams while the dispatch thread
\* runs and the validator answers
NextStream ==
    \/ \E th \in Senders : MessageStream_GenerateCorrelationId(th)
    \/ \E th \in Senders : MessageStream_Record(th)
    \/ \E th \in Senders : MessageStream_Send(th)
    \/ \E th \in Senders : FutureMessage_GetMessage(th)
    \/ MessageDispatcher_SendMessage
    \/ MessageDispatcher_ReceiveMessage
    \/ \E id \in CorrelationIds : Validator_Reply(id)
    \/ Validator_Unsolicited

SpecStream == Init /\ [][NextStream]_vars

\* the validator sends transactions and pings while the dispatch thread and
\* the Run loop run
NextProcessor ==
    \/ \E family \in Families : Validator_ProcessRequest(family)
    \/ Validator_Ping
    \/ MessageDispatcher_ReceiveMessage
    \/ \E does \in HandlerBehaviours : Run(does)
    \/ MessageDispatcher_SendMessage

SpecProcessor == Init /\ [][NextProcessor]_vars

(***************************************************************************)
(* Vocabulary of the properties.                                           *)
(***************************************************************************)
IsCertificateCall == last.op = "CreateWaitCertificate"
IsTimerCall == last.op = "CreateWaitTimer"

\* the timer handed in with the last call
LastInput == [ser |-> last.ser, sig |-> last.sig]

\* the last call handed back, unaltered, a timer that was issued
LastTimerIssued == LastInput \in timers

\* the last call was made with the sealed data of the identity that signed
LastByIssuer == last.id = last.sig.signer

LastTimer == ParseWaitTimer(last.ser)

SequenceIdOf(ser) == json_object_dotget_number(ser, "SequenceId")

\* certificates in the log that were issued before the last call
EarlierCertificates ==
    IF IsCertificateCall /\ last.result = Ok
    THEN 1..(Len(certs) - 1) ELSE 1..Len(certs)

CertifiedBefore(t) == \E k \in EarlierCertificates : certs[k].timer = t

EverCertified(t) == \E k \in 1..Len(certs) : certs[k].timer = t

AtMostOneCertificatePerTimer ==
    \A j, k \in 1..Len(certs) : certs[j].timer = certs[k].timer => j = k

\* C1 (as stated): at most one create_wait_certificate call succeeds for a
\* timer T, and every later call with the same T fails with the sequencing
\* ValueError (timer out of sequence).
C1_AsStated ==
    /\ AtMostOneCertificatePerTimer
    /\ (IsCertificateCall /\ LastTimerIssued /\ LastByIssuer
          /\ CertifiedBefore(LastInput))
       => last.result = ValueError(MsgSequence)

\* C1 (amended): at most one create_wait_certificate call succeeds for a
\* timer T; every later call with the same T fails, with the sequencing
\* ValueError while the identity's counter exists and with SystemError
\* (the counter cannot be read) once release_signup_data has destroyed it.
C1_AtMostOnce ==
    /\ AtMostOneCertificatePerTimer
    /\ (IsCertificateCall /\ LastTimerIssued /\ LastByIssuer
          /\ CertifiedBefore(LastInput))
       => last.result = IF last.mcBefore >= 0
                        THEN ValueError(MsgSequence)
                        ELSE SystemError(MsgReadCounter)

\* a timer was certified and a second request for it was refused as out of
\* sequence
C1_Witness ==
    /\ IsCertificateCall /\ LastTimerIssued /\ LastByIssuer
    /\ CertifiedBefore(LastInput)
    /\ last.result = ValueError(MsgSequence)

NewerTimerExists(ser, sig) ==
    \E t \in timers : /\ t.sig.signer = sig.signer
                      /\ SequenceIdOf(t.ser) > SequenceIdOf(ser)

\* C2 (as stated): create_wait_certificate succeeds only if the counter
\* equals the timer's sequence_id; once a newer timer exists for the
\* identity, a request for the older timer fails with ValueError.
C2_AsStated ==
    /\ (IsCertificateCall /\ last.result = Ok)
       => last.mcBefore = SequenceIdOf(last.ser)
    /\ (IsCertificateCall /\ LastTimerIssued /\ LastByIssuer
          /\ NewerTimerExists(last.ser, last.sig))
       => last.result.code = POET_ERR_VALUE

\* C2 (amended): create_wait_certificate succeeds only if the counter equals
\* the timer's sequence_id; once a newer timer exists for the identity, a
\* request for the older timer fails: with the sequencing ValueError while
\* the counter exists, with SystemError once it has been destroyed.
C2_OnlyLatestTimer ==
    /\ (IsCertificateCall /\ last.result = Ok)
       => last.mcBefore = SequenceIdOf(last.ser)
    /\ (IsCertificateCall /\ LastTimerIssued /\ LastByIssuer
          /\ NewerTimerExists(last.ser, last.sig))
       => /\ last.result # Ok
          /\ last.mcBefore >= 0 => last.result = ValueError(MsgSequence)
          /\ last.mcBefore < 0 => last.result.code = POET_ERR_SYSTEM

\* a request for an older timer was refused after a newer one was minted
C2_Witness ==
    /\ IsCertificateCall /\ LastTimerIssued /\ LastByIssuer
    /\ NewerTimerExists(last.ser, last.sig)
    /\ last.result = ValueError(MsgSequence)

\* an earlier timer of the same identity exists that was never certified
EarlierUncertifiedTimerExists(ser, sig) ==
    \E t \in timers : /\ t.sig.signer = sig.signer
                      /\ SequenceIdOf(t.ser) < SequenceIdOf(ser)
                      /\ ~EverCertified(t)

LastValidInSequence ==
    /\ IsCertificateCall /\ LastTimerIssued /\ LastByIssuer
    /\ last.mcBefore = SequenceIdOf(last.ser)

NonGenesis(ser) == Member(ser, "PreviousCertID") # NULL_IDENTIFIER

\* end of the wait counted from the time the caller supplied
CallerExpiry(ser) ==
    Ticks(json_object_dotget_number(ser, "RequestTime"))
        + json_object_dotget_number(ser, "Duration")

\* end of the wait counted from the trusted time read at creation
TrustedExpiry(ser) ==
    Ticks(json_object_dotget_number(ser, "SgxRequestTime"))
        + json_object_dotget_number(ser, "Duration")

WholeSecondsIn(ticks) == ticks \div TicksPerSecond
WholeSecondsCovering(ticks) == 0 - ((0 - ticks) \div TicksPerSecond)

\* C4 (as stated): for a validly signed, in-sequence, non-genesis timer the
\* request fails as not expired at request_time + duration - 1, succeeds at
\* request_time + duration + 1, and the threshold is
\* floor(request_time + duration).
C4_AsStated ==
    (LastValidInSequence /\ NonGenesis(last.ser))
    => /\ Ticks(last.at) = CallerExpiry(last.ser) - Ticks(1)
            => last.result = ValueError(MsgNotExpired)
       /\ Ticks(last.at) = CallerExpiry(last.ser) + Ticks(1)
            => last.result = Ok
       /\ last.result = ValueError(MsgNotExpired)
            <=> last.at < WholeSecondsIn(CallerExpiry(last.ser))

\* C4 (amended): the same, counted from the trusted time the enclave read
\* when it created the timer (SgxRequestTime), not from the caller-supplied
\* request_time: not expired at SgxRequestTime + duration - 1, success at
\* SgxRequestTime + duration + 1, threshold floor(SgxRequestTime + duration).
C4_ExpirationGate ==
    (LastValidInSequence /\ NonGenesis(last.ser))
    => /\ Ticks(last.at) = TrustedExpiry(last.ser) - Ticks(1)
            => last.result = ValueError(MsgNotExpired)
       /\ Ticks(last.at) = TrustedExpiry(last.ser) + Ticks(1)
            => last.result = Ok
       /\ last.result = ValueError(MsgNotExpired)
            <=> last.at < WholeSecondsIn(TrustedExpiry(last.ser))

\* a certificate was issued one second after the wait ended, for a timer
\* whose caller-supplied request time differs from the trusted one
C4_Witness ==
    /\ LastValidInSequence /\ NonGenesis(last.ser)
    /\ Ticks(last.at) = TrustedExpiry(last.ser) + Ticks(1)
    /\ CallerExpiry(last.ser) # TrustedExpiry(last.ser)
    /\ last.result = Ok

\* C5 (as stated): for a validly signed, in-sequence, non-genesis timer the
\* request fails as timed out whenever the current time exceeds
\* ceil(request_time + duration + 30).
C5_AsStated ==
    (LastValidInSequence /\ NonGenesis(last.ser)
       /\ last.at > WholeSecondsCovering(CallerExpiry(last.ser)
                                           + Ticks(TIMER_TIMEOUT_PERIOD)))
    => last.result = ValueError(MsgTimedOut)

\* C5 (amended): the request fails as timed out exactly when the current
\* time exceeds ceil(SgxRequestTime + duration + 30), the time being counted
\* from the trusted time read at creation; in particular at
\* SgxRequestTime + duration + TIMER_TIMEOUT_PERIOD + 1.
C5_TimeoutGate ==
    (LastValidInSequence /\ NonGenesis(last.ser))
    => /\ last.result = ValueError(MsgTimedOut)
            <=> last.at > WholeSecondsCovering(TrustedExpiry(last.ser)
                                                 + Ticks(TIMER_TIMEOUT_PERIOD))
       /\ Ticks(last.at) = TrustedExpiry(last.ser)
                             + Ticks(TIMER_TIMEOUT_PERIOD) + Ticks(1)
            => last.result = ValueError(MsgTimedOut)

\* a request one second past the grace window was refused as timed out
C5_Witness ==
    /\ LastValidInSequence /\ NonGenesis(last.ser)
    /\ Ticks(last.at) = TrustedExpiry(last.ser)
                          + Ticks(TIMER_TIMEOUT_PERIOD) + Ticks(1)
    /\ last.result = ValueError(MsgTimedOut)

\* C6: a validly signed, in-sequence timer chained from the null identifier
\* yields a certificate at any time, before expiry and after the time-out.
C6_GenesisBypass ==
    (LastValidInSequence /\ ~NonGenesis(last.ser)) => last.result = Ok

\* one genesis certificate was issued at the very second its timer was
\* created, another after its timer's grace window had passed
C6_Witness ==
    /\ \E k \in 1..Len(certs) :
          /\ ~NonGenesis(certs[k].timer.ser)
          /\ certs[k].at = json_object_dotget_number(certs[k].timer.ser,
                                                     "SgxRequestTime")
    /\ \E k \in 1..Len(certs) :
          /\ ~NonGenesis(certs[k].timer.ser)
          /\ Ticks(certs[k].at) > TrustedExpiry(certs[k].timer.ser)
                                    + Ticks(TIMER_TIMEOUT_PERIOD) + Ticks(1)

\* C7 (as stated): every certificate issued for a non-genesis timer was
\* requested at a time t with request_time + duration <= t <=
\* request_time + duration + TIMER_TIMEOUT_PERIOD.
C7_AsStated ==
    \A k \in 1..Len(certs) :
       NonGenesis(certs[k].timer.ser)
       => /\ Ticks(certs[k].at) >= CallerExpiry(certs[k].timer.ser)
          /\ Ticks(certs[k].at) <= CallerExpiry(certs[k].timer.ser)
                                     + Ticks(TIMER_TIMEOUT_PERIOD)

\* C7 (amended): every certificate issued for a non-genesis timer was
\* requested at a whole-second time t with
\* floor(SgxRequestTime + duration) <= t <=
\* ceil(SgxRequestTime + duration + TIMER_TIMEOUT_PERIOD), SgxRequestTime
\* being the trusted time read when the timer was created.
C7_IssuedInWindow ==
    \A k \in 1..Len(certs) :
       NonGenesis(certs[k].timer.ser)
       => /\ certs[k].at >= WholeSecondsIn(TrustedExpiry(certs[k].timer.ser))
          /\ certs[k].at <= WholeSecondsCovering(
                               TrustedExpiry(certs[k].timer.ser)
                                 + Ticks(TIMER_TIMEOUT_PERIOD))

\* a non-genesis certificate was issued in the last partial second of the
\* wait
C7_Witness ==
    \E k \in 1..Len(certs) :
       /\ NonGenesis(certs[k].timer.ser)
       /\ Ticks(certs[k].at) < TrustedExpiry(certs[k].timer.ser)

(***************************************************************************)
(* Timer signature.                                                        *)
(***************************************************************************)
\* the signature handed in was made over the bytes handed in, by the
\* identity whose sealed data was handed in
SignedByIdentity(id, ser, sig) == sig.signer = id /\ sig.over = ser

Parses(ser) == HasKey(ser, "PreviousCertID") /\ HasKey(ser, "ValidatorAddress")

CertificatesFromOwnTimers ==
    \A k \in 1..Len(certs) :
       /\ SignedByIdentity(certs[k].id, certs[k].timer.ser, certs[k].timer.sig)
       /\ certs[k].timer \in timers

\* C8 (as stated): create_wait_certificate fails with ValueError (signature
\* invalid) whenever the timer signature does not verify over the supplied
\* serialized timer under the identity's public key; a timer of another
\* identity or an altered timer never becomes a certificate.
C8_AsStated ==
    /\ (IsCertificateCall /\ ~SignedByIdentity(last.id, last.ser, last.sig))
       => last.result = ValueError(MsgSignature)
    /\ CertificatesFromOwnTimers

\* C8 (amended): whenever the timer signature does not verify, the request
\* fails with ValueError: signature invalid if the supplied timer parses,
\* and the parse failure if it does not (the timer is parsed before its
\* signature is checked); a timer of another identity or an altered timer
\* never becomes a certificate.
C8_SignatureGate ==
    /\ (IsCertificateCall /\ ~SignedByIdentity(last.id, last.ser, last.sig))
       => /\ last.result.code = POET_ERR_VALUE
          /\ Parses(last.ser) => last.result.msg = MsgSignature
          /\ ~Parses(last.ser)
               => last.result.msg \in {MsgParsePrev, MsgParseAddr}
    /\ CertificatesFromOwnTimers

\* an altered timer that still parses was refused as badly signed
C8_Witness ==
    /\ IsCertificateCall
    /\ last.sig.signer = last.id /\ last.sig.over # last.ser
    /\ Parses(last.ser)
    /\ last.result = ValueError(MsgSignature)

(***************************************************************************)
(* Counter.                                                                *)
(***************************************************************************)
\* C9: a successful create_wait_timer advances the identity's counter by
\* exactly one and the timer's sequence_id is the new value.
C9_TimerAdvancesCounter ==
    (IsTimerCall /\ last.result = Ok)
    => /\ mcValue[last.id] = last.mcBefore + 1
       /\ SequenceIdOf(last.outSer) = mcValue[last.id]

\* a timer was minted when the counter had already advanced
C9_Witness ==
    /\ IsTimerCall /\ last.result = Ok
    /\ last.mcBefore > 0

TimersOf(i) == {t \in timers : t.sig.signer = i}
CertificatesOf(i) == {k \in 1..Len(certs) : certs[k].id = i}

\* C10: a successful create_wait_certificate advances the identity's counter
\* by exactly one, so the counter has advanced once for every timer and once
\* for every certificate handed out.
C10_CertificateAdvancesCounter ==
    /\ (IsCertificateCall /\ last.result = Ok)
       => mcValue[last.id] = last.mcBefore + 1
    /\ \A i \in Identities :
          mcValue[i] >= Cardinality(TimersOf(i)) + Cardinality(CertificatesOf(i))

\* a certificate was issued and the counter stands at two
C10_Witness ==
    /\ IsCertificateCall /\ last.result = Ok
    /\ mcValue[last.id] = 2
    /\ Cardinality(TimersOf(last.id)) = 1

(***************************************************************************)
(* Timer and certificate cycles.                                           *)
(***************************************************************************)
\* the counter as it stood when the timer was requested: the sequence id is
\* the value the request's increment returned
CounterWhenRequested(ser) == SequenceIdOf(ser) - 1

UncertifiedTimersOf(i) == {t \in TimersOf(i) : ~EverCertified(t)}

\* C11 (as stated): a complete cycle, a successful create_wait_timer followed
\* by a successful create_wait_certificate on that timer, consumes exactly one
\* timer and advances the counter by one.
C11_AsStated ==
    /\ AtMostOneCertificatePerTimer
    /\ (IsCertificateCall /\ last.result = Ok)
       => mcValue[last.id] = CounterWhenRequested(last.ser) + 1

\* C11 (amended): a complete cycle consumes exactly one timer and advances
\* the counter by two, once when the timer is minted and once when it is
\* certified: the counter has advanced twice for every completed cycle and
\* once for every timer minted and not certified.
C11_CycleAdvancesByTwo ==
    /\ AtMostOneCertificatePerTimer
    /\ \A k \in 1..Len(certs) : certs[k].timer \in TimersOf(certs[k].id)
    /\ (IsCertificateCall /\ last.result = Ok)
       => mcValue[last.id] = CounterWhenRequested(last.ser) + 2
    /\ \A i \in Identities :
          mcValue[i] >= 2 * Cardinality(CertificatesOf(i))
                          + Cardinality(UncertifiedTimersOf(i))

\* an identity completed its second cycle
C11_Witness ==
    /\ IsCertificateCall /\ last.result = Ok
    /\ Cardinality(CertificatesOf(last.id)) = 2
    /\ UncertifiedTimersOf(last.id) = {}

\* C12: the counter of an identity never decreases, whatever call is made and
\* whether it succeeds or fails, and a timer minted later carries a strictly
\* larger sequence_id than every timer the identity minted before.
C12_CounterNeverDecreases ==
    [][ /\ \A i \in Identities : mcValue'[i] >= mcValue[i]
        /\ \A t \in timers' \ timers : \A u \in timers :
              u.sig.signer = t.sig.signer
              => SequenceIdOf(t.ser) > SequenceIdOf(u.ser) ]_vars

\* a request failed after the identity had minted two timers and certified
\* the first
C12_Witness ==
    /\ last.result # Ok
    /\ last.op \in {"CreateWaitCertificate", "CreateWaitTimer",
                    "UnsealSignupData"}
    /\ Cardinality(TimersOf(last.id)) = 2
    /\ mcValue[last.id] = 3

(***************************************************************************)
(* Release.                                                                *)
(***************************************************************************)
\* the identity's sealed data is out and its counter has been destroyed
Released(i) == i \in sealed /\ ~mcExists[i]

UsesSealedData(op) ==
    op \in {"UnsealSignupData", "CreateWaitTimer", "CreateWaitCertificate"}

\* C13: a successful release_signup_data destroys the counter for good: the
\* identity stays released, no later unseal, timer or certificate call with
\* its sealed data succeeds, and no timer or certificate is minted from it.
C13_ReleaseIsFinal ==
    [][ /\ (last'.op = "ReleaseSignupData" /\ last'.result = Ok)
           => (last'.id \in sealed' /\ ~mcExists'[last'.id])
        /\ \A i \in Identities :
              Released(i)
              => /\ Released(i)'
                 /\ TimersOf(i)' = TimersOf(i)
                 /\ CertificatesOf(i)' = CertificatesOf(i)
                 /\ (last'.id = i /\ UsesSealedData(last'.op))
                      => last'.result # Ok ]_vars

\* a released identity was asked for a timer, with valid arguments, and for
\* a certificate on a timer it had minted
C13_Witness ==
    /\ Released(last.id)
    /\ IsCertificateCall /\ LastTimerIssued /\ LastByIssuer
    /\ last.result = SystemError(MsgReadCounter)

\* the exception kind the specification calls IntegrityError
IntegrityError == "IntegrityError"

\* the call was made with sealed data whose counter no longer exists
LastOnDestroyedCounter == last.id \in sealed /\ last.mcBefore < 0

IsVerifyCall == last.op = "VerifyWaitCertificate"

\* C20: verify_wait_certificate checks the signature only: it changes neither
\* counter, sealed identity, time, timers nor certificates, and its result is
\* success exactly when the signature was made over the serialized
\* certificate by the key handed in, whatever was created or released before.
C20_VerifyIsPure ==
    [][ (last'.op = "VerifyWaitCertificate" /\ last' # last)
        => /\ UNCHANGED <<sealed, mcExists, mcValue, now, timers, certs>>
           /\ last'.result = Ok
                <=> SignedByIdentity(last'.id, last'.ser, last'.sig)
           /\ last'.result # Ok
                => last'.result = ValueError(MsgCertSignature) ]_vars

\* a certificate verified under the key of an identity that had since been
\* released and had gone on to mint another timer before
C20_Witness ==
    /\ IsVerifyCall /\ last.result = Ok
    /\ Released(last.id)
    /\ Cardinality(TimersOf(last.id)) = 2

(***************************************************************************)
(* Retries of the bridge.                                                  *)
(***************************************************************************)
CallSgxActivations == {n \in 1..Len(stack) : stack[n].fn = "CallSgx"}

\* the bridge call that returned last gave up on a call that reported busy
\* every time it was invoked
GaveUpOnBusy ==
    returned.ret = SGX_ERROR_DEVICE_BUSY /\ returned.lost = 0

\* C15: a call that keeps reporting busy is invoked at most retries + 1
\* times, 6 times with the default 5 retries and 11 times for enclave
\* creation, the bridge sleeps the fixed delay after each busy attempt, and
\* the operation then returns a terminal error.
C15_BoundedBusyRetry ==
    /\ \A n \in CallSgxActivations :
          stack[n].lost = 0
          => /\ stack[n].calls <= stack[n].retries
             /\ stack[n].slept = stack[n].calls * stack[n].delay
    /\ GaveUpOnBusy
       => /\ returned.calls = returned.retries + 1
          /\ returned.calls = IF returned.fxn = "sgx_create_enclave"
                               THEN 11 ELSE 6
          /\ returned.slept = returned.calls * returned.delay
          /\ returned.delay = IF returned.fxn = "sgx_create_enclave"
                               THEN CreateEnclaveRetryWaitMs
                               ELSE DefaultRetryDelayMs
          /\ returned.code = POET_ERR_SYSTEM

\* enclave creation was given up on after its eleventh busy attempt
C15_Witness ==
    /\ GaveUpOnBusy
    /\ returned.fxn = "sgx_create_enclave"
    /\ returned.calls = 11

\* C16 (as stated): no public operation reports the transient-busy condition:
\* when a busy call is given up on, or a platform call reports busy, the
\* operation returns POET_ERR_SYSTEM, never POET_ERR_SYSTEM_BUSY.
C16_AsStated ==
    /\ returned.code # POET_ERR_SYSTEM_BUSY
    /\ returned.ret \in {SGX_ERROR_DEVICE_BUSY, SGX_ERROR_BUSY}
       => returned.code = POET_ERR_SYSTEM

\* C17 (as stated): a call that reports the enclave lost makes the bridge
\* reload once and retry once; a second such report is surfaced and does not
\* make it reload again.
C17_AsStated ==
    /\ \A n \in CallSgxActivations : stack[n].lost <= 1
    /\ returned.lost <= 1

\* C18 (as stated): every call into the bridge terminates, whatever the
\* platform reports.
C18_AsStated == Running ~> ~Running

(***************************************************************************)
(* Overlapping certificate requests.                                       *)
(***************************************************************************)
\* the threads that have passed the sequence check and not yet returned
PastSequenceCheck == {th \in Threads : inflight[th] # Idle}

\* C19 (as stated): the sequence check and the counter advance of
\* create_wait_certificate behave as one critical section: from a thread's
\* sequence check to its increment no other call changes the counter, and
\* two overlapping requests for the same timer cannot both succeed.
C19_AsStated ==
    /\ \A th \in PastSequenceCheck :
          mcExists[inflight[th].id]
          => mcValue[inflight[th].id] = inflight[th].sequenceId
    /\ \A j, k \in 1..Len(certs) : certs[j].timer = certs[k].timer => j = k

(***************************************************************************)
(* Signatures over the serialized payloads.                                *)
(***************************************************************************)
\* the payloads that differ from ser in one member: its value rewritten (to
\* a string no member has, or to the next number), or the member dropped
StringMembers == {"BlockHash", "PreviousCertID", "ValidatorAddress"}

Altered(ser) ==
    {SetMember(ser, ser[n][1], IF ser[n][1] \in StringMembers THEN "x"
                               ELSE ser[n][2] + 1) : n \in 1..Len(ser)}
       \cup {DropMember(ser, ser[n][1]) : n \in 1..Len(ser)}

\* C21: the serialized timer or certificate a successful create call returns
\* verifies under the issuing identity's public key with the signature
\* returned, no payload that differs from it does, and verify_wait_certificate
\* accepts an issued certificate under its issuer's key exactly when the
\* payload is the one that was signed.
C21_SignedPayloadVerifies ==
    /\ (last.op \in {"CreateWaitTimer", "CreateWaitCertificate"}
          /\ last.result = Ok)
       => /\ sgx_ecdsa_verify(last.outSer, PublicKey(last.id), last.outSig)
          /\ \A p \in Altered(last.outSer) :
                ~sgx_ecdsa_verify(p, PublicKey(last.id), last.outSig)
    /\ \A k \in 1..Len(certs) :
          /\ VerifyResult(certs[k].ser, certs[k].sig, PublicKey(certs[k].id)) = Ok
          /\ \A p \in Altered(certs[k].ser) :
                VerifyResult(p, certs[k].sig, PublicKey(certs[k].id))
                   = ValueError(MsgCertSignature)
          /\ (IsVerifyCall /\ last.sig = certs[k].sig /\ last.id = certs[k].id)
             => (last.result = Ok <=> last.ser = certs[k].ser)

\* an issued certificate whose nonce had been rewritten was presented with
\* its signature under its issuer's key, and was refused
C21_Witness ==
    /\ IsVerifyCall
    /\ last.result = ValueError(MsgCertSignature)
    /\ \E k \in 1..Len(certs) :
          /\ last.sig = certs[k].sig
          /\ last.id = certs[k].id
          /\ last.ser = SetMember(certs[k].ser, "Nonce", 0)
          /\ last.ser # certs[k].ser

(***************************************************************************)
(* Durations.                                                              *)
(***************************************************************************)
AtLeast(d, t) == d.kind = "+inf" \/ (d.kind = "finite" /\ d.ticks >= t)

\* C22: for every local mean above zero the duration is at least
\* MINIMUM_WAIT_TIME, whatever the keyed MAC of the enclave and whatever the
\* exponential sample of the simulator.
C22_DurationFloor ==
    /\ (calc.fn = "GenerateWaitTimerDuration" /\ calc.args[2] > 0)
       => AtLeast(calc.out, Ticks(MINIMUM_WAIT_TIME))
    /\ (calc.fn = "ComputeDuration" /\ calc.args[1] > 0)
       => AtLeast(calc.out, Ticks(MINIMUM_WAIT_TIME))

\* the enclave derived a finite duration above the minimum from a tag in the
\* lower half of its range
C22_Witness ==
    /\ calc.fn = "GenerateWaitTimerDuration"
    /\ calc.args[2] > 0
    /\ calc.args[1] > 0
    /\ calc.out.kind = "finite"
    /\ calc.out.ticks > Ticks(MINIMUM_WAIT_TIME)

(***************************************************************************)
(* Argument validation.                                                    *)
(***************************************************************************)
\* the arguments <<address, previous certificate id, local mean>> of a timer
\* request are not acceptable
BadTimerArguments(args) ==
    \/ args[3] <= 0
    \/ strlen(args[1]) < 26
    \/ strlen(args[1]) > 66
    \/ strlen(args[2]) # 16

\* C23: create_wait_timer with a local mean of zero or less, an address
\* shorter than 26 or longer than 66 characters, or a previous certificate id
\* that is not 16 characters long returns ValueError without entering the
\* enclave, and changes neither the counter nor the timers.
C23_BadArgumentsRefused ==
    [][ (last'.op = "CreateWaitTimer" /\ last' # last
           /\ BadTimerArguments(last'.args))
        => /\ ThrowPoetError(last'.result.code) = "ValueError"
           /\ ~last'.ecall
           /\ last'.outSer = <<>>
           /\ UNCHANGED <<sealed, mcExists, mcValue, timers, certs>> ]_vars

\* a request with an address of 67 characters was refused after the
\* identity's counter had advanced
C23_Witness ==
    /\ IsTimerCall
    /\ last.args = <<LongAddress, OtherCertId, 1>>
    /\ last.result = ValueError(MsgAddress)
    /\ ~last.ecall
    /\ last.mcBefore > 0

WellFormedCommitment(c) ==
    /\ Len(c) = CommitmentLength
    /\ \A n \in 1..Len(c) : IsHexDigit(c[n])

\* C24: create_signup_data refuses a commitment that is not hexadecimal or
\* is too long with ValueError before any call into the enclave: no key
\* pair and no counter are created and no signup information is handed out
\* for it.
C24_AsStated ==
    (last.op = "CreateSignupData" /\ ~WellFormedCommitment(last.args[1]))
       => /\ last.result.code = POET_ERR_VALUE
          /\ ~last.ecall
          /\ last.id \notin sealed

\* the same commitment up to the case of its letters
SameCommitment(c, d) ==
    /\ Len(c) = Len(d)
    /\ \A n \in 1..Len(c) : toupper(c[n]) = toupper(d[n])

\* C29: verify_signup_info succeeds only if the hash of the upper-cased
\* commitment followed by the upper-cased text of the public key is the
\* report data of the quote presented; a quote handed out for another
\* commitment (other than by the case of its letters) or for another
\* public key is refused with ValueError.
C29_ReportDataRecomputed ==
    last.op = "VerifySignupInfo"
       => LET commitment == last.args[1]
              key == last.args[2]
              quote == last.args[3]
          IN /\ last.result = Ok
                => quote.report_data
                     = sgx_sha256_msg(
                         [n \in 1..Len(commitment) |-> toupper(commitment[n])]
                         \o [n \in 1..Len(key) |-> toupper(key[n])])
             /\ \A s \in signups :
                   (/\ quote.report_data = s.enclaveQuote.report_data
                    /\ \/ s.poetPublicKey # key
                       \/ \E c \in Commitments :
                            /\ s = SignupData(s.id, c)
                            /\ ~SameCommitment(c, commitment))
                   => last.result.code = POET_ERR_VALUE

\* evidence handed out for one commitment was presented with its own key
\* and another commitment, and refused for its report data
C29_Witness ==
    /\ last.op = "VerifySignupInfo"
    /\ last.result = ValueError("Report data is invalid")
    /\ last.args[1] = OtherCommitment
    /\ \E s \in signups :
          /\ s = SignupData(s.id, GoodCommitment)
          /\ s.poetPublicKey = last.args[2]
          /\ s.enclaveQuote = last.args[3]

(***************************************************************************)
(* Loading and unloading.                                                  *)
(***************************************************************************)
\* C25: a call of initialize made while the bridge is initialized returns
\* success and changes nothing: the enclave is not unloaded or loaded and
\* no call into SGX is started, whatever the arguments.
C25_InitializeIdempotent ==
    [][(g_IsInitialized /\ returned'.op = "Poet_Initialize")
          => /\ returned'.code = POET_SUCCESS
             /\ UNCHANGED <<g_IsInitialized, enclaveId, stack, sgxEnclave>>
             /\ UNCHANGED <<protocolVars, inflight, helperVars>>]_vars

\* initialize was called with a NULL argument on an initialized bridge
\* and returned success
C25_Witness ==
    /\ returned.op = "Poet_Initialize"
    /\ returned.args = "NULL"
    /\ returned.code = POET_SUCCESS
    /\ g_IsInitialized
    /\ enclaveId

\* C26: every call of terminate, in any state, returns success and leaves
\* the bridge uninitialized, and an enclave is destroyed at most once
\* after it was created and never before one was.
C26_TerminateSafe ==
    [][/\ returned'.op = "Poet_Terminate"
          => (returned'.code = POET_SUCCESS /\ ~g_IsInitialized')
       /\ sgxEnclave'.destroyed
            <= (IF sgxEnclave'.created THEN 1 ELSE 0)]_vars

\* terminate returned after the loaded enclave was destroyed
C26_Witness ==
    /\ returned.op = "Poet_Terminate"
    /\ sgxEnclave.created
    /\ sgxEnclave.destroyed = 1
    /\ ~enclaveId
    /\ ~g_IsInitialized

(***************************************************************************)
(* The simulated enclave against the contract of the SGX enclave.          *)
(***************************************************************************)
\* the checks of ecall_CreateWaitCertificate, applied to a timer of the
\* simulated enclave at time at, before has been created so far: the
\* signature, the sequence (the timer is the last thing created: no timer
\* and no certificate was created since), expiry and time-out
BadSignature(ser, sig) == ~verify_signature("WaitTimerPrivateKey", ser, sig)
OutOfSequence(ser, before) ==
    \/ before = <<>>
    \/ before[Len(before)].kind # "WaitTimer"
    \/ before[Len(before)].ser # ser
Unexpired(ser, at) ==
    /\ Member(ser, "PreviousCertID") # NULL_IDENTIFIER
    /\ Ticks(Member(ser, "RequestTime")) + Member(ser, "Duration") > Ticks(at)
SimTimedOut(ser, at) ==
    /\ Member(ser, "PreviousCertID") # NULL_IDENTIFIER
    /\ Ticks(Member(ser, "RequestTime")) + Member(ser, "Duration")
          + Ticks(TIMER_TIMEOUT_PERIOD) < Ticks(at)
HardwareRejects(ser, sig, before, at) ==
    \/ BadSignature(ser, sig)
    \/ ~BadSignature(ser, sig)
          /\ (OutOfSequence(ser, before) \/ Unexpired(ser, at)
                \/ SimTimedOut(ser, at))

\* C27: no operation reports a failure by a null or empty result:
\* create_wait_certificate on a timer that fails the signature, sequence
\* or expiry check returns an error and not a null certificate.
C27_AsStated ==
    sim.last.op = "create_wait_certificate"
       => sim.last.result \in {"WaitCertificate", "ValueError"}

\* C28: the simulated enclave refuses a certificate request exactly when
\* the SGX enclave's contract refuses it: bad timer signature, timer out
\* of sequence or already used, timer of a non-genesis block not expired,
\* timer timed out; it accepts every other request.
C28_AsStated ==
    sim.last.op = "create_wait_certificate"
       => LET accepted == sim.last.result = "WaitCertificate"
              before == IF accepted
                           THEN SubSeq(sim.created, 1, Len(sim.created) - 1)
                           ELSE sim.created
          IN accepted
               <=> ~HardwareRejects(sim.last.ser, sim.last.sig, before,
                                    sim.last.at)

(***************************************************************************)
(* Identifiers.                                                            *)
(***************************************************************************)
\* C31: identifier() of a certificate is always exactly 16 characters: the
\* null identifier when the certificate has no signature, and for a signed
\* certificate 16 characters that are not the null identifier.
C31_IdentifierLength ==
    calc.fn = "identifier"
       => /\ Len(calc.out) = CERTIFICATE_ID_LENGTH
          /\ calc.args = <<>> <=> calc.out = NullIdentifierText

\* the identifier of a signed certificate was computed
C31_Witness ==
    /\ calc.fn = "identifier"
    /\ calc.args # <<>>
    /\ Len(calc.out) = CERTIFICATE_ID_LENGTH
    /\ calc.out # NullIdentifierText

(***************************************************************************)
(* Canonical serialization.                                                *)
(***************************************************************************)
\* the names of the members in alphabetical (byte) order
AlphabeticalKeys ==
    << "BlockHash", "Duration", "LocalMean", "Nonce", "PreviousCertID",
       "RequestTime", "SequenceId", "SgxRequestTime", "ValidatorAddress" >>
KeyRank(k) == CHOOSE n \in 1..Len(AlphabeticalKeys) : AlphabeticalKeys[n] = k
StrictlyAlphabetical(ser) ==
    \A n \in 1..(Len(ser) - 1) : KeyRank(ser[n][1]) < KeyRank(ser[n + 1][1])

\* the timer, and the certificate, serialized again from its members
TimerAgain(ser) ==
    LET wt == ParseWaitTimer(ser)
    IN SerializeWaitTimer(wt.Duration, wt.LocalMean, wt.PreviousCertificateId,
                          wt.RequestTime, wt.SequenceId, wt.SgxRequestTime,
                          wt.ValidatorAddress)
CertificateAgain(ser) ==
    SerializeWaitCertificate(Member(ser, "BlockHash"), ParseWaitTimer(ser),
                             Member(ser, "Nonce"))

\* C32: the serialization of every timer and certificate handed out has
\* its keys in strict alphabetical order, and serializing the same members
\* again gives the identical text.
C32_CanonicalSerialization ==
    /\ \A t \in timers :
          StrictlyAlphabetical(t.ser) /\ TimerAgain(t.ser) = t.ser
    /\ \A k \in 1..Len(certs) :
          /\ StrictlyAlphabetical(certs[k].ser)
          /\ CertificateAgain(certs[k].ser) = certs[k].ser

\* a timer and a certificate have been serialized and handed out
C32_Witness ==
    /\ timers # {}
    /\ Len(certs) > 0
    /\ Len(certs[1].ser) = 7
    /\ \E t \in timers : Len(t.ser) = 7


(***************************************************************************)
(* Order of the checks of create_wait_certificate.                         *)
(***************************************************************************)
\* the counter stood at a value other than the timer's sequence id
LastOutOfSequence ==
    last.mcBefore >= 0 /\ last.mcBefore # SequenceIdOf(last.ser)

\* at the trusted time of the last call the timer had not yet expired
LastUnexpired == NotExpired(LastTimer, CurrentTime(last.at))

LastTimedOut == TimedOut(LastTimer, CurrentTime(last.at))

\* C33 (as stated): create_wait_certificate applies its checks in the order
\* signature, sequence, not-expired, timed-out and reports the first that
\* fails: a timer with an invalid signature is rejected as signature-invalid
\* whatever its content, and a validly signed timer that is both out of
\* sequence and unexpired is rejected as out of sequence.
C33_AsStated ==
    IsCertificateCall
    => /\ ~SignedByIdentity(last.id, last.ser, last.sig)
            => last.result = ValueError(MsgSignature)
       /\ (SignedByIdentity(last.id, last.ser, last.sig)
             /\ LastOutOfSequence /\ LastUnexpired)
            => last.result = ValueError(MsgSequence)

\* C33 (amended): the checks are applied in the order parse, signature,
\* counter read, sequence, not-expired, timed-out, and the first that fails
\* is the one reported: a timer that does not parse is rejected with the
\* parse failure whatever its signature, a timer that parses with an invalid
\* signature is rejected as signature-invalid whatever else it holds, and a
\* validly signed timer that is both out of sequence and unexpired is
\* rejected as out of sequence.
C33_CheckOrder ==
    IsCertificateCall
    => IF ~Parses(last.ser)
       THEN /\ last.result.code = POET_ERR_VALUE
            /\ last.result.msg \in {MsgParsePrev, MsgParseAddr}
       ELSE IF ~SignedByIdentity(last.id, last.ser, last.sig)
       THEN last.result = ValueError(MsgSignature)
       ELSE IF last.mcBefore < 0
       THEN last.result = SystemError(MsgReadCounter)
       ELSE IF LastOutOfSequence
       THEN last.result = ValueError(MsgSequence)
       ELSE IF LastUnexpired
       THEN last.result = ValueError(MsgNotExpired)
       ELSE IF LastTimedOut
       THEN last.result = ValueError(MsgTimedOut)
       ELSE last.result = Ok

\* a validly signed timer, both out of sequence and unexpired, was rejected
\* as out of sequence
C33_Witness ==
    /\ IsCertificateCall
    /\ SignedByIdentity(last.id, last.ser, last.sig)
    /\ LastOutOfSequence /\ LastUnexpired
    /\ last.result = ValueError(MsgSequence)


(***************************************************************************)
(* The clock the expiry and time-out comparisons use.                      *)
(***************************************************************************)
\* the timers ecall_CreateWaitTimer would have returned under the same
\* conditions for every request_time the caller could have supplied
RequestTimeTwins(ser) ==
    { SetMember(ser, "RequestTime",
                json_object_dotget_number(ser, "SgxRequestTime") + skew) :
        skew \in RequestSkews }

\* C34: whether a certificate request is accepted depends on boundary-sourced
\* time only: a timer that differs from the one handed in only in the
\* caller-supplied request_time is accepted, refused as not expired or
\* refused as timed out exactly as the one handed in, at every boundary time.
C34_BoundaryTimeOnly ==
    LastValidInSequence
    => \A twin \in RequestTimeTwins(last.ser) :
          TimingResult(twin, last.at) = last.result

\* a timer whose wait, counted from the caller-supplied request_time, was
\* over, was refused as not expired on the boundary's clock
C34_Witness ==
    /\ LastValidInSequence /\ NonGenesis(last.ser)
    /\ Cardinality(RequestTimeTwins(last.ser)) > 1
    /\ CallerExpiry(last.ser) <= Ticks(last.at)
    /\ last.result = ValueError(MsgNotExpired)


(***************************************************************************)
(* What a rejected call leaves behind.                                     *)
(***************************************************************************)
\* C35: a create_wait_certificate call that is rejected (malformed timer,
\* invalid timer signature, out-of-sequence timer, unexpired timer,
\* timed-out timer) leaves the replay counter unchanged, so a timer rejected
\* only as not-expired can still be certified once it has expired.
C35_RejectionKeepsCounter ==
    (IsCertificateCall /\ last.result # Ok)
    => /\ last.mcBefore >= 0
            => mcExists[last.id] /\ mcValue[last.id] = last.mcBefore
       /\ last.mcBefore < 0 => ~mcExists[last.id]
       /\ last.result = ValueError(MsgNotExpired)
            => CertificateResult(last.id, last.ser, last.sig,
                                 ExpireTime(LastTimer)) = Ok

\* an issued timer handed back too early was refused as not expired, with
\* the counter still at the timer's sequence id
C35_Witness ==
    /\ LastValidInSequence
    /\ last.result = ValueError(MsgNotExpired)
    /\ mcValue[last.id] = SequenceIdOf(last.ser)


\* the counter of the identity of the last call stands where it stood
\* before the call
LastCounterUnchanged ==
    /\ last.mcBefore >= 0
         => mcExists[last.id] /\ mcValue[last.id] = last.mcBefore
    /\ last.mcBefore < 0 => ~(last.id \in sealed /\ mcExists[last.id])

\* C36 (as stated): a create_wait_timer call that returns an error leaves
\* the replay counter unchanged: the counter advances only for calls that
\* return a signed timer to the caller.
C36_AsStated ==
    (IsTimerCall /\ last.result # Ok) => LastCounterUnchanged

\* C36 (amended): a create_wait_timer call whose error is raised before the
\* counter increment (argument validation, a destroyed counter) leaves the
\* replay counter unchanged; a call whose error is raised after it (signing
\* the timer failed) returns no timer and leaves the counter advanced.
C36_CounterAfterTimerError ==
    (IsTimerCall /\ last.result # Ok)
    => /\ last.outSer = <<>> /\ last.outSig = NoSig
       /\ IF last.result = SystemError(MsgSignTimer)
          THEN /\ last.ecall
               /\ mcValue[last.id] > last.mcBefore
               /\ \A t \in timers : t.sig.signer = last.id
                     => SequenceIdOf(t.ser) < mcValue[last.id]
          ELSE LastCounterUnchanged

\* a call with bad arguments was refused with the counter where it stood,
\* at a value some timer had already been issued for
C36_Witness ==
    /\ IsTimerCall /\ ~last.ecall /\ last.result.code = POET_ERR_VALUE
    /\ last.mcBefore > 0 /\ mcValue[last.id] = last.mcBefore


(***************************************************************************)
(* The counter across the retries of Enclave::CallSgx.                     *)
(***************************************************************************)
\* C37: internal transient-busy and enclave-lost retries are invisible in
\* the replay counter: a public create_wait_timer call that eventually
\* succeeds has advanced the counter by exactly one, however many times the
\* bridge re-invoked the underlying boundary call.
C37_RetriesInvisible ==
    (returned.op = "Poet_CreateWaitTimer" /\ returned.code = POET_SUCCESS)
    => returned.advanced = 1

\* a call succeeded whose boundary call was lost once, after the increment,
\* and re-invoked once: the counter advanced twice
C37_Witness ==
    /\ returned.op = "Poet_CreateWaitTimer" /\ returned.code = POET_SUCCESS
    /\ returned.lost = 1 /\ returned.calls = 2 /\ returned.count = 0
    /\ returned.advanced = 2 /\ mcValue[1] = 2

(***************************************************************************)
(* The counters create_signup_data leaves behind.                          *)
(***************************************************************************)
\* C38: every replay counter created during create_signup_data is either
\* the one referenced by the sealed blob returned to the caller or is
\* destroyed before the call returns: once the call has returned, failed or
\* retried internally as it may have been, no live counter is left that no
\* sealed blob handed out refers to.
C38_NoOrphanCounter ==
    ~Running => UnsealedCounters = {}

\* the call failed on sgx_get_quote after ecall_CreateSignupData had
\* succeeded: the counter it created is live and no sealed blob was returned
C38_Witness ==
    /\ ~Running
    /\ returned.op = "Poet_CreateSignupData" /\ returned.fxn = "sgx_get_quote"
    /\ returned.code # POET_SUCCESS
    /\ returned.lost = 0 /\ sealed = {} /\ UnsealedCounters = {1}


(***************************************************************************)
(* The SDK: replies and responses.                                         *)
(***************************************************************************)
\* the request with this correlation id has been handed over for sending
\* and its reply has not been looked up yet
AwaitingReply(id) ==
    \/ \E k \in 1..Len(send_queue) : send_queue[k].correlation_id = id
    \/ id \in validator.requests
    \/ \E k \in 1..Len(server_socket) : server_socket[k].correlation_id = id

ReplyFound(id) == [correlation_id |-> id, found |-> TRUE]
ReplyLost(id) == [correlation_id |-> id, found |-> FALSE]

\* C39: under every interleaving of the sending threads and the dispatch
\* thread, a request handed over for sending has its future in the pending
\* map, and the reply to it finds that future, completes it exactly once
\* and removes it from the map; no future is completed twice.
C39_ReplyFindsFuture ==
    \A id \in CorrelationIds \ {0} :
       /\ ReplyLost(id) \notin dispatched
       /\ future_message[id] <= 1
       /\ AwaitingReply(id) =>
             (id \in message_futures /\ future_message[id] = 0)
       /\ ReplyFound(id) \in dispatched =>
             (id \notin message_futures /\ future_message[id] = 1)

\* the reply to the first request completed its future while the other
\* thread, inside SendMessage, had recorded its future and not sent yet;
\* a reply nobody asked for had found no future
C39_Witness ==
    /\ ReplyFound(1) \in dispatched
    /\ ReplyLost(0) \in dispatched
    /\ future_message[1] = 1
    /\ 1 \notin message_futures
    /\ \E th \in Senders :
          /\ sender[th].correlation_id = 2
          /\ sender[th].step = 2
          /\ 2 \in message_futures

\* the responses to the processing request with this correlation id that
\* were sent: those still on the send queue and those the validator has
ResponsesSent(id) ==
    LET IsResponse(m) ==
            m.message_type = TP_PROCESS_RESPONSE /\ m.correlation_id = id
    IN  [queued |-> {k \in 1..Len(send_queue) : IsResponse(send_queue[k])},
         arrived |-> {k \in 1..Len(validator.received) :
                         IsResponse(validator.received[k])}]

StatusesSent(id) ==
    {send_queue[k].content : k \in ResponsesSent(id).queued}
    \cup {validator.received[k].content : k \in ResponsesSent(id).arrived}

NumResponsesSent(id) ==
    Cardinality(ResponsesSent(id).queued)
    + Cardinality(ResponsesSent(id).arrived)

\* the status the handler's behaviour calls for
StatusFor(does) ==
    CASE does = ApplyReturns -> OK
      [] does \in {ApplyThrowsInvalid, NoHandler} -> INVALID_TRANSACTION
      [] OTHER -> INTERNAL_ERROR

====
